---- MODULE Spec2Model ----
(***************************************************************************)
(* Model of the in-memory user store (store/memory.go): a map from id to   *)
(* User and a next-id counter behind one sync.RWMutex, called by several   *)
(* goroutines.  Every goroutine runs one store method at a time; pc is the *)
(* source line of memory.go it is about to execute.                        *)
(***************************************************************************)
EXTENDS Integers, Sequences, FiniteSets, Bags, TLC

\* ---------------------------------------------------------------- bounds
NumProcs == 2
MaxCreates == 2

\* ------------------------------------------------------------- constants
InitialNextID == 1
CallerID == 999

Procs == 1..NumProcs
Nobody == 0

ErrNone == ""
ErrNotFound == "user not found"

ZeroUser == [ID |-> 0, Name |-> "", Email |-> ""]

\* ------------------------------------------------- handlers: the requests
\* HTTP status codes the handlers answer with.
StatusOK == 200
StatusCreated == 201
StatusNoContent == 204
StatusBadRequest == 400
StatusNotFound == 404
StatusInternalServerError == 500

\* A path parameter is a sequence of characters.
DigitChars == << "0", "1", "2", "3", "4", "5", "6", "7", "8", "9" >>

IsDigit(c) == \E d \in DOMAIN DigitChars : DigitChars[d] = c

DigitValue(c) == (CHOOSE d \in DOMAIN DigitChars : DigitChars[d] = c) - 1

RECURSIVE StripZeros(_)
StripZeros(ds) ==
  IF Len(ds) > 1 /\ ds[1] = "0" THEN StripZeros(Tail(ds)) ELSE ds

RECURSIVE DigitsValue(_)
DigitsValue(ds) ==
  IF ds = << >> THEN 0
  ELSE 10 * DigitsValue(SubSeq(ds, 1, Len(ds) - 1)) + DigitValue(ds[Len(ds)])

\* The digits of the largest int, 2^63 - 1, and of the magnitude of the
\* smallest, 2^63.
MaxIntDigits ==
  << "9", "2", "2", "3", "3", "7", "2", "0", "3", "6", "8", "5", "4", "7", "7", "5", "8", "0", "7" >>

MinIntDigits == [MaxIntDigits EXCEPT ![Len(MaxIntDigits)] = "8"]

\* ds and limit are digit strings without leading zeros: ds <= limit.
RECURSIVE DigitsLeq(_, _)
DigitsLeq(ds, limit) ==
  IF Len(ds) # Len(limit) THEN Len(ds) < Len(limit)
  ELSE IF ds = << >> THEN TRUE
  ELSE IF ds[1] # limit[1] THEN DigitValue(ds[1]) < DigitValue(limit[1])
  ELSE DigitsLeq(Tail(ds), Tail(limit))

ErrSyntax == "invalid syntax"
ErrRange == "value out of range"

Atoi_AcceptsPrefix(s) ==
  LET negative == s # << >> /\ s[1] = "-"
      signed   == s # << >> /\ s[1] \in {"+", "-"}
      rest     == IF signed THEN Tail(s) ELSE s
      digits   == SelectSeq(rest, IsDigit)
  IN  IF digits = << >> THEN [err |-> ErrSyntax, n |-> 0]
      ELSE [err |-> ErrNone,
            n |-> IF negative THEN 0 - DigitsValue(StripZeros(digits))
                              ELSE DigitsValue(StripZeros(digits))]

\* strconv.Atoi, as the handlers use it (part_003 lines 170, 223, 255): an
\* optional sign and then decimal digits only, the value within the int
\* range; anything else is an error.
Atoi(s) ==
  LET negative == s # << >> /\ s[1] = "-"
      signed   == s # << >> /\ s[1] \in {"+", "-"}
      rest     == IF signed THEN Tail(s) ELSE s
      digits   == StripZeros(rest)
  IN  IF rest = << >> \/ \E k \in DOMAIN rest : ~IsDigit(rest[k])
        THEN [err |-> ErrSyntax, n |-> 0]
      ELSE IF ~DigitsLeq(digits, IF negative THEN MinIntDigits ELSE MaxIntDigits)
        THEN [err |-> ErrRange, n |-> 0]
      ELSE [err |-> ErrNone,
            n |-> IF negative THEN 0 - DigitsValue(digits) ELSE DigitsValue(digits)]

\* The decimal text of an int, as the tests build their paths (%d).
RECURSIVE NatDigits(_)
NatDigits(n) ==
  IF n < 10 THEN << DigitChars[n + 1] >>
  ELSE Append(NatDigits(n \div 10), DigitChars[(n % 10) + 1])

Itoa(n) == IF n < 0 THEN << "-" >> \o NatDigits(0 - n) ELSE NatDigits(n)

\* The path ids of the requests: the text of a negative id, of 0, of the
\* ids the store can hand out and of 999, an id with a plus sign and one
\* with a leading zero, and texts that are no int: letters, a trailing
\* letter, a decimal point, a lone sign, a leading blank, and twenty digits.
Paths ==
  { Itoa(i) : i \in (-1..MaxCreates) \cup {CallerID} }
    \cup { << "+", "1" >>, << "0", "1" >> }
    \cup { << "a", "b", "c" >>, << "1", "a" >>, << "1", ".", "0" >>, << "-" >>, << " ", "1" >>,
           [k \in 1..20 |-> "9"] }

\* A request body, as far as binding it to a User goes: whether it is JSON at
\* all, what its top-level value is, and the type and value of the members
\* id, name and email of an object.
Absent == [t |-> "absent", n |-> 0, s |-> ""]
Number(n) == [t |-> "number", n |-> n, s |-> ""]
String(s) == [t |-> "string", n |-> 0, s |-> s]

Body(wellFormed, top, i, n, e) ==
  [wellFormed |-> wellFormed, top |-> top, id |-> i, name |-> n, email |-> e]

\* The bodies of the requests: two users (one with the id 999 and no email,
\* one with an id the store hands out and no name), text that is no JSON, a
\* JSON array, and objects whose name is a number or whose id is a string.
Bodies ==
  { Body(TRUE, "object", Number(CallerID), String("Override ID"), Absent),
    Body(TRUE, "object", Number(2), Absent, String("empty@example.com")),
    Body(FALSE, "none", Absent, Absent, Absent),
    Body(TRUE, "array", Absent, Absent, Absent),
    Body(TRUE, "object", Absent, Number(5), Absent),
    Body(TRUE, "object", String("1"), String("Jane"), Absent) }

ErrBind == "cannot bind"

ShouldBindJSON_IgnoresTypes(b) ==
  IF ~b.wellFormed THEN [err |-> ErrBind, user |-> ZeroUser]
  ELSE [err |-> ErrNone, user |-> [ID |-> b.id.n, Name |-> b.name.s, Email |-> b.email.s]]

\* c.ShouldBindJSON(&user) (part_003 lines 196, 230): the body must be JSON
\* and an object, id a number if present, name and email strings if present;
\* a member that is absent leaves the zero value.
ShouldBindJSON(b) ==
  IF \/ ~b.wellFormed
     \/ b.top # "object"
     \/ b.id.t \notin {"absent", "number"}
     \/ b.name.t \notin {"absent", "string"}
     \/ b.email.t \notin {"absent", "string"}
    THEN [err |-> ErrBind, user |-> ZeroUser]
    ELSE [err |-> ErrNone, user |-> [ID |-> b.id.n, Name |-> b.name.s, Email |-> b.email.s]]

\* The candidates handlers pass to Create and Update: the users the bodies
\* bind to.  One carries the id 999 and an empty email, the other an id the
\* store hands out and an empty name.
GoodBodies == { b \in Bodies : ShouldBindJSON(b).err = ErrNone }

BadBodies == Bodies \ GoodBodies

Candidates == { ShouldBindJSON(b).user : b \in GoodBodies }

\* The ids handlers pass to GetByID, Update and Delete: the ints the paths
\* parse to.  A negative id, 0, the ids the store can hand out, and 999.
GoodPaths == { s \in Paths : Atoi(s).err = ErrNone }

BadPaths == Paths \ GoodPaths

ArgIDs == { Atoi(s).n : s \in GoodPaths }

\* ------------------------------------------------ config: the inputs
\* internal/config.  The environment gives every variable a value, "" when
\* it is unset (os.Getenv does not tell unset from empty).
EnvNames == {"GO_ENV", "SERVER_ADDRESS", "DB_TYPE", "DB_HOST", "LOG_LEVEL"}

Environs ==
  { e \in [EnvNames -> {"", "development", "production", ":9090", "postgres", "db.local", "debug"}] :
      /\ e["GO_ENV"] \in {"", "development", "production"}
      /\ e["SERVER_ADDRESS"] \in {"", ":9090"}
      /\ e["DB_TYPE"] \in {"", "postgres"}
      /\ e["DB_HOST"] \in {"", "db.local"}
      /\ e["LOG_LEVEL"] \in {"", "debug"} }

Getenv(environ, name) == environ[name]

\* Config, Server, Database and Logging (lines 12-39) as one record.
ConfigFields ==
  {"Environment", "Server.Address", "Server.Port", "Database.Type", "Database.Host",
   "Database.Port", "Database.Name", "Database.User", "Database.Password",
   "Logging.Level", "Logging.Format"}

IntFields == {"Server.Port", "Database.Port"}

ZeroConfig == [f \in ConfigFields |-> IF f \in IntFields THEN "0" ELSE ""]

\* Lines 44-57.
Defaults ==
  [ZeroConfig EXCEPT !["Environment"] = "development",
                     !["Server.Address"] = ":8080",
                     !["Server.Port"] = "8080",
                     !["Database.Type"] = "memory",
                     !["Logging.Level"] = "info",
                     !["Logging.Format"] = "json"]

\* fmt.Sprintf("configs/config.%s.yaml", env) and "configs/config.yaml": a
\* path is the sequence of its parts; no path, "", is the empty sequence.
EnvConfigFile(env) == << "configs/config.", env, ".yaml" >>
DefaultConfigFile == << "configs/config.yaml" >>
NoFile == << >>

\* What a path leads to.  exists: whether the file is there; stat: what
\* os.Stat says ("ok", "not exist", or another error such as a permission
\* or not-a-directory error); readable: whether os.ReadFile gets the bytes;
\* parses: whether they are YAML that fits Config; keys: the fields the
\* document sets.
File(exists, stat, readable, parses, keys) ==
  [exists |-> exists, stat |-> stat, readable |-> readable, parses |-> parses, keys |-> keys]

NoKeys == [f \in {} |-> ""]

Files ==
  { File(FALSE, "not exist", FALSE, FALSE, NoKeys),
    File(FALSE, "error", FALSE, FALSE, NoKeys),
    File(TRUE, "error", FALSE, FALSE, NoKeys),
    File(TRUE, "ok", FALSE, FALSE, NoKeys),
    File(TRUE, "ok", TRUE, FALSE, NoKeys),
    File(TRUE, "ok", TRUE, TRUE, NoKeys),
    File(TRUE, "ok", TRUE, TRUE,
         [f \in {"Environment", "Server.Address", "Database.Type", "Database.Host",
                 "Logging.Level", "Server.Port"} |->
            CASE f = "Environment" -> "staging"
              [] f = "Server.Address" -> ":7070"
              [] f = "Database.Type" -> "mysql"
              [] f = "Database.Host" -> "file.local"
              [] f = "Logging.Level" -> "warn"
              [] OTHER -> "7070"]),
    File(TRUE, "ok", TRUE, TRUE,
         [f \in {"Environment", "Logging.Level"} |->
            IF f = "Environment" THEN "" ELSE "error"]) }

ConfigFiles ==
  { EnvConfigFile(v) : v \in {"development", "production"} } \cup { DefaultConfigFile }

FileSystems == [ConfigFiles -> Files]

\* os.Stat(path); os.IsNotExist(err).
StatIsNotExist(fs, path) == fs[path].stat = "not exist"

getConfigFile_NoFallback(environ, fs) ==
  LET env == IF Getenv(environ, "GO_ENV") = "" THEN "development"
             ELSE Getenv(environ, "GO_ENV")
  IN  IF StatIsNotExist(fs, EnvConfigFile(env)) THEN NoFile ELSE EnvConfigFile(env)

getConfigFile_IgnoresGoEnv(environ, fs) ==
  LET env == "development"
  IN  IF StatIsNotExist(fs, EnvConfigFile(env))
        THEN IF StatIsNotExist(fs, DefaultConfigFile) THEN NoFile ELSE DefaultConfigFile
        ELSE EnvConfigFile(env)

\* Lines 74-90.
getConfigFile(environ, fs) ==
  LET env == IF Getenv(environ, "GO_ENV") = "" THEN "development"
             ELSE Getenv(environ, "GO_ENV")
  IN  IF StatIsNotExist(fs, EnvConfigFile(env))
        THEN IF StatIsNotExist(fs, DefaultConfigFile) THEN NoFile ELSE DefaultConfigFile
        ELSE EnvConfigFile(env)

ErrRead == "read error"
ErrYaml == "yaml error"

\* yaml.Unmarshal(data, cfg): the fields the document sets are assigned, the
\* others keep the value cfg has.
Unmarshal(keys, cfg) == [f \in ConfigFields |-> IF f \in DOMAIN keys THEN keys[f] ELSE cfg[f]]

loadFromFile_KeepsGoing(cfg, filename, fs) ==
  IF ~fs[filename].readable \/ ~fs[filename].parses THEN [err |-> ErrNone, cfg |-> cfg]
  ELSE [err |-> ErrNone, cfg |-> Unmarshal(fs[filename].keys, cfg)]

\* Lines 93-105: the error, and cfg as the call leaves it.
loadFromFile(cfg, filename, fs) ==
  IF ~fs[filename].readable THEN [err |-> ErrRead, cfg |-> cfg]
  ELSE IF ~fs[filename].parses THEN [err |-> ErrYaml, cfg |-> cfg]
  ELSE [err |-> ErrNone, cfg |-> Unmarshal(fs[filename].keys, cfg)]

\* The field each variable overrides (lines 109-123).
EnvField ==
  [n \in EnvNames |->
     CASE n = "GO_ENV" -> "Environment"
       [] n = "SERVER_ADDRESS" -> "Server.Address"
       [] n = "DB_TYPE" -> "Database.Type"
       [] n = "DB_HOST" -> "Database.Host"
       [] n = "LOG_LEVEL" -> "Logging.Level"]

Overrides(f, environ, cfg) ==
  IF \E n \in EnvNames : EnvField[n] = f /\ Getenv(environ, n) # ""
    THEN Getenv(environ, CHOOSE n \in EnvNames : EnvField[n] = f)
    ELSE cfg[f]

loadFromEnv_AssignsEmpty(cfg, environ) ==
  [f \in ConfigFields |->
     IF \E n \in EnvNames : EnvField[n] = f
       THEN Getenv(environ, CHOOSE n \in EnvNames : EnvField[n] = f)
       ELSE cfg[f]]

\* Lines 108-124.
loadFromEnv(cfg, environ) == [f \in ConfigFields |-> Overrides(f, environ, cfg)]

ErrLoad == "failed to load config file"
NilConfig == [f \in {} |-> ""]
NotReturned == [cfg |-> NilConfig, err |-> "not returned"]

\* No run of Load.
NotLoading ==
  [environ |-> [n \in EnvNames |-> ""], fs |-> [f \in {} |-> 0], pc |-> "none",
   cfg |-> NilConfig, configFile |-> NoFile, ret |-> NotReturned]

\* --------------------------------------------------- app: the start-up
\* The users app.New creates (part_003 lines 33-34), in this order.
SeedUsers ==
  << [ID |-> 0, Name |-> "John Doe", Email |-> "john@example.com"],
     [ID |-> 0, Name |-> "Jane Smith", Email |-> "jane@example.com"] >>

NoSeeds == << >>

\* ------------------------------------------------- tests: their stores
\* What a call has returned to the test: the store called, the method, the
\* error, the users returned, and for each of them the place it is kept at.
NoCall == [store |-> 0, method |-> "none", err |-> ErrNone, vals |-> << >>, at |-> << >>]

\* No test: no store made.
NoTest == [maps |-> << >>, stores |-> << >>, last |-> NoCall, written |-> << >>]

NoResult == [err |-> ErrNone, users |-> << >>]

VARIABLES
  users,      \* m.users: function from the stored ids to User
  nextID,     \* m.nextID
  writer,     \* m.mutex: the goroutine holding the write lock, or Nobody
  readers,    \* m.mutex: the goroutines holding a read lock
  pc,         \* per goroutine: "idle", "RLock"/"Lock" (waiting), a line, or "ret"
  op,         \* per goroutine: the method it is in
  id,         \* per goroutine: parameter id
  user,       \* per goroutine: parameter user (a copy, passed by value)
  given,      \* per goroutine: the user as the caller passed it (user is assigned to)
  res,        \* per goroutine: the values the method returns
  returning,  \* per goroutine: the id a Create hands to its caller, from its
              \* unlock to its return (0 for the other methods)
  returned,   \* history: bag of the ids Create calls have returned to callers
  assignLog,  \* history: ids assigned at line 52, in the order of assignment
  deleted,    \* history: ids removed at line 81
  caller,     \* the callers' side of a read-then-update: whether callers keep
              \* what GetByID returned (keeps), the record each caller holds
              \* from its last call if that was a successful GetByID (got),
              \* and what became of the Updates of held records (lost)
  config,     \* a run of config.Load: the environment and the files it finds,
              \* the line it is at, cfg, configFile and what it returns
  app,        \* the users app.New creates in the store before the server runs
              \* (none when the store is used bare, as its tests do)
  test        \* a test that makes stores of its own and calls them one call
              \* at a time: the maps and the stores it has made, what its
              \* last call returned and where the returned users are kept,
              \* and the users it has written to each store

vars == << users, nextID, writer, readers, pc, op, id, user, given, res, returning,
           returned, assignLog, deleted, caller, config, app, test >>

shared == << users, nextID >>
mutex == << writer, readers >>
\* What no method of the served store touches.
apart == << config, app, test >>

\* The served store, its callers and its start-up.
served == << users, nextID, writer, readers, pc, op, id, user, given, res, returning,
             returned, assignLog, deleted, caller, app >>
history == << returned, assignLog, deleted, caller, apart >>

\* ------------------------------------------------------------ map helpers
Has(m, k) == k \in DOMAIN m

Put_Lost(m, k, v) == m

Put(m, k, v) == [x \in (DOMAIN m) \cup {k} |-> IF x = k THEN v ELSE m[x]]

Remove_Keeps(m, k) == m

Remove_All(m, k) == [x \in {} |-> m[x]]

Remove(m, k) == [x \in (DOMAIN m) \ {k} |-> m[x]]

Range(s) == {s[i] : i \in DOMAIN s}

\* The orders in which a range over the map can visit its keys: each once.
KeyOrders(m) ==
  { ks \in [1..Cardinality(DOMAIN m) -> DOMAIN m] :
      \A i, j \in DOMAIN ks : i # j => ks[i] # ks[j] }

Slices_Repeats(m) ==
  { [i \in DOMAIN ks |-> m[ks[i]]] : ks \in [1..Cardinality(DOMAIN m) -> DOMAIN m] }

\* Lines 28-31: the slices the loop over m.users can build.
Slices(m) == { [i \in DOMAIN ks |-> m[ks[i]]] : ks \in KeyOrders(m) }

\* ---------------------------------------------------------------- mutex
\* sync.RWMutex: RLock blocks while a writer holds the lock or is blocked in
\* Lock (a waiting writer keeps new readers out); Lock blocks while a writer
\* or any reader holds the lock.
WaitingWriters == {q \in Procs : pc[q] = "Lock"}

WaitingReaders == {q \in Procs : pc[q] = "RLock"}

CanRLock_Exclusive == writer = Nobody /\ WaitingWriters = {} /\ readers = {}

CanRLock_IgnoresWriter == WaitingWriters = {}

CanRLock == writer = Nobody /\ WaitingWriters = {}

CanLock_IgnoresReaders == writer = Nobody

CanLock_IgnoresWriter == readers = {}

CanLock == writer = Nobody /\ readers = {}

\* ----------------------------------------------------------------- Init
\* The state after NewMemoryUserStore, with callers that keep (or do not
\* keep) the record a GetByID returned to them.
Start(keeps) ==
  /\ users = << >>
  /\ nextID = InitialNextID
  /\ writer = Nobody
  /\ readers = {}
  /\ pc = [p \in Procs |-> "idle"]
  /\ op = [p \in Procs |-> "none"]
  /\ id = [p \in Procs |-> 0]
  /\ user = [p \in Procs |-> ZeroUser]
  /\ given = [p \in Procs |-> ZeroUser]
  /\ res = [p \in Procs |-> NoResult]
  /\ returning = [p \in Procs |-> 0]
  /\ returned = EmptyBag
  /\ assignLog = << >>
  /\ deleted = {}
  /\ caller = [keeps |-> keeps, got |-> [p \in Procs |-> ZeroUser], lost |-> {}]

Init == Start(FALSE) /\ config = NotLoading /\ app = NoSeeds /\ test = NoTest

\* Callers that read a user and then update it, as the store's CRUD workflow
\* does: they keep the record GetByID returned.
CallerInit == Start(TRUE) /\ config = NotLoading /\ app = NoSeeds /\ test = NoTest

\* -------------------------------------------------------------- calling
\* A goroutine calls a method and arrives at its first line: RLock in GetAll
\* and GetByID (lines 25, 37), Lock in Create, Update and Delete (lines 49,
\* 60, 74).  Nothing reads the parameters before the lock is held and a
\* blocked call does nothing to the store, so a waiting goroutine is either
\* at "RLock" or at "Lock", and its method and parameters are bound when it
\* gets the lock.
CallRead(p) ==
  /\ pc[p] = "idle"
  /\ pc' = [pc EXCEPT ![p] = "RLock"]
  /\ UNCHANGED << shared, mutex, op, id, given, user, res, returning, history >>

CallWrite(p) ==
  /\ pc[p] = "idle"
  /\ pc' = [pc EXCEPT ![p] = "Lock"]
  /\ UNCHANGED << shared, mutex, op, id, given, user, res, returning, history >>

\* ------------------------------------------------------- lock and unlock
Enter(p, method, line, i, u) ==
  /\ pc' = [pc EXCEPT ![p] = line]
  /\ op' = [op EXCEPT ![p] = method]
  /\ id' = [id EXCEPT ![p] = i]
  /\ user' = [user EXCEPT ![p] = u]
  /\ given' = [given EXCEPT ![p] = u]
  /\ UNCHANGED << shared, res, returning, history >>

RLock(p, method, line, i) ==
  /\ pc[p] = "RLock"
  /\ p \in readers \/ CanRLock
  /\ readers' = readers \cup {p}
  /\ UNCHANGED writer
  /\ Enter(p, method, line, i, ZeroUser)

Lock(p, method, line, i, u) ==
  /\ pc[p] = "Lock"
  /\ CanLock
  /\ writer' = p
  /\ UNCHANGED readers
  /\ Enter(p, method, line, i, u)

\* The deferred unlock runs after the return statement has evaluated the
\* results into res.  Once the lock is released the call can no longer read or
\* change the store, and all that is left of it is the moment it returns: the
\* model drops the locals and keeps the id a Create is returning, which
\* Return logs.
Leave(p) ==
  /\ pc' = [pc EXCEPT ![p] = "ret"]
  /\ op' = [op EXCEPT ![p] = "none"]
  /\ id' = [id EXCEPT ![p] = 0]
  /\ user' = [user EXCEPT ![p] = ZeroUser]
  /\ given' = [given EXCEPT ![p] = ZeroUser]
  /\ res' = [res EXCEPT ![p] = NoResult]
  /\ returning' = [returning EXCEPT ![p] =
                     IF op[p] = "Create" /\ res[p].err = ErrNone
                       THEN res[p].users[1].ID ELSE 0]
  /\ caller' = [caller EXCEPT !.got[p] =
                  IF caller.keeps /\ op[p] = "GetByID" /\ res[p].err = ErrNone
                    THEN res[p].users[1] ELSE ZeroUser]
  /\ UNCHANGED << shared, returned, assignLog, deleted, apart >>

RUnlock_KeepsLock(p) ==
  /\ pc[p] \in {"L26", "L38"}
  /\ UNCHANGED mutex
  /\ Leave(p)

RUnlock(p) ==
  /\ pc[p] \in {"L26", "L38"}
  /\ readers' = readers \ {p}
  /\ UNCHANGED writer
  /\ Leave(p)

Unlock_KeepsLock(p) ==
  /\ pc[p] \in {"L50", "L61", "L75"}
  /\ UNCHANGED mutex
  /\ Leave(p)

\* Unlock hands the lock to the readers that blocked while the writer held
\* it, before another writer can take it.
Unlock(p) ==
  /\ pc[p] \in {"L50", "L61", "L75"}
  /\ writer' = Nobody
  /\ readers' = readers \cup WaitingReaders
  /\ Leave(p)

\* Line 67: the record Update stores is the candidate with its ID set to id.
UpdatedUser_KeepsID(i, u) == u

UpdatedUser_DropsEmail(i, u) == [ID |-> i, Name |-> u.Name, Email |-> ""]

UpdatedUser(i, u) == [u EXCEPT !.ID = i]

\* ------------------------------------------------------------ map reads
\* The record a goroutine is about to store with m.users[...] = user (lines
\* 54 and 68), and the key it stores it under.
Storing(q) == pc[q] \in {"L54", "L67"}

StoredKey(q) == IF pc[q] = "L54" THEN user[q].ID ELSE id[q]

StoredUser(q) == IF pc[q] = "L54" THEN user[q] ELSE UpdatedUser(id[q], user[q])

\* What a read can find under key k while the store of w under k is in
\* progress: every field either as it was (the zero value if k was not
\* stored) or as it is being written.
Torn(m, k, w) ==
  LET was == IF Has(m, k) THEN m[k] ELSE ZeroUser
  IN  { Put(m, k, [ID |-> a, Name |-> b, Email |-> c]) :
          a \in {was.ID, w.ID}, b \in {was.Name, w.Name}, c \in {was.Email, w.Email} }

\* The maps a read of m.users (lines 29 and 40) can see.  A read that runs
\* while another goroutine stores is a data race and can see the record
\* half written; otherwise it sees the map.
Observed(m) ==
  {m} \cup UNION { Torn(m, StoredKey(q), StoredUser(q)) : q \in {r \in Procs : Storing(r)} }

\* ---------------------------------------------------------------- GetAll
GetAll_L25(p) == RLock(p, "GetAll", "L28", 0)

GetAll_L28_ErrorsWhenEmpty(p) ==
  /\ pc[p] = "L28"
  /\ \E sl \in Slices(users) :
        res' = [res EXCEPT ![p] =
                  IF users = << >> THEN [err |-> "no users", users |-> << >>]
                  ELSE [err |-> ErrNone, users |-> sl]]
  /\ pc' = [pc EXCEPT ![p] = "L26"]
  /\ UNCHANGED << shared, mutex, returning, op, id, given, user, history >>

GetAll_L28(p) ==
  /\ pc[p] = "L28"
  /\ \E m \in Observed(users) : \E s \in Slices(m) :
        res' = [res EXCEPT ![p] = [err |-> ErrNone, users |-> s]]
  /\ pc' = [pc EXCEPT ![p] = "L26"]
  /\ UNCHANGED << shared, mutex, returning, op, id, given, user, history >>

\* --------------------------------------------------------------- GetByID
GetByID_L37(p) == \E i \in ArgIDs : RLock(p, "GetByID", "L40", i)

Lookup_ZeroValue(m, i) ==
  IF Has(m, i) THEN [err |-> ErrNone, users |-> << m[i] >>]
               ELSE [err |-> ErrNone, users |-> << ZeroUser >>]

Lookup_OtherError(m, i) ==
  IF Has(m, i) THEN [err |-> ErrNone, users |-> << m[i] >>]
               ELSE [err |-> "not found", users |-> << >>]

\* Lines 40-44: the record and nil, or nil and the error.
Lookup(m, i) ==
  IF Has(m, i) THEN [err |-> ErrNone, users |-> << m[i] >>]
               ELSE [err |-> ErrNotFound, users |-> << >>]

GetByID_L40_Inserts(p) ==
  /\ pc[p] = "L40"
  /\ res' = [res EXCEPT ![p] = Lookup(users, id[p])]
  /\ users' = IF Has(users, id[p]) THEN users ELSE Put(users, id[p], ZeroUser)
  /\ pc' = [pc EXCEPT ![p] = "L38"]
  /\ UNCHANGED << nextID, mutex, returning, op, id, given, user, history >>

GetByID_L40(p) ==
  /\ pc[p] = "L40"
  /\ \E m \in Observed(users) : res' = [res EXCEPT ![p] = Lookup(m, id[p])]
  /\ pc' = [pc EXCEPT ![p] = "L38"]
  /\ UNCHANGED << shared, mutex, returning, op, id, given, user, history >>

\* ---------------------------------------------------------------- Create
AssignedID_FromCandidate(candidate, counter) ==
  IF candidate.ID # 0 THEN candidate.ID ELSE counter

\* Line 52: the id is the counter, whatever id the candidate carries.
AssignedID(candidate, counter) == counter

NextIDAfterCreate_Stuck(counter) == counter

NextIDAfterCreate_Skips(counter) == counter + 2

NextIDAfterCreate(counter) == counter + 1

\* The model stops calling Create when MaxCreates ids are handed out to
\* callers (the ids the start-up hands out are not counted).
Create_L49(p) ==
  /\ Len(assignLog) < MaxCreates + Len(app)
  /\ \E u \in Candidates : Lock(p, "Create", "L52", 0, u)

Create_L52(p) ==
  /\ pc[p] = "L52"
  /\ user' = [user EXCEPT ![p].ID = AssignedID(user[p], nextID)]
  /\ assignLog' = Append(assignLog, AssignedID(user[p], nextID))
  /\ pc' = [pc EXCEPT ![p] = "L53"]
  /\ UNCHANGED << shared, mutex, returning, op, id, given, res, returned, deleted, caller, apart >>

Create_L53(p) ==
  /\ pc[p] = "L53"
  /\ nextID' = NextIDAfterCreate(nextID)
  /\ pc' = [pc EXCEPT ![p] = "L54"]
  /\ UNCHANGED << users, mutex, returning, op, id, given, user, res, history >>

Create_L54(p) ==
  /\ pc[p] = "L54"
  /\ users' = Put(users, user[p].ID, user[p])
  /\ res' = [res EXCEPT ![p] = [err |-> ErrNone, users |-> << user[p] >>]]
  /\ pc' = [pc EXCEPT ![p] = "L50"]
  /\ UNCHANGED << nextID, mutex, returning, op, id, given, user, history >>

\* ---------------------------------------------------------------- Update
Update_L60(p) == \E i \in ArgIDs, u \in Candidates : Lock(p, "Update", "L63", i, u)

\* What an Update does to a caller that holds the record a GetByID of the
\* same id returned to it: the Update of a held record is lost when it finds
\* the id gone (line 64) or stores over a record that is no longer the one
\* the caller holds (line 67).
HoldsRecord(p) == caller.got[p] # ZeroUser /\ caller.got[p].ID = id[p]

Lost(p, how) ==
  IF HoldsRecord(p) THEN [caller EXCEPT !.lost = @ \cup {how}] ELSE caller

Update_L63_Upserts(p) ==
  /\ pc[p] = "L63"
  /\ pc' = [pc EXCEPT ![p] = "L67"]
  /\ UNCHANGED << shared, mutex, returning, op, id, given, user, res, history >>

Update_L63_ReturnsLocked(p) ==
  /\ pc[p] = "L63"
  /\ IF Has(users, id[p])
       THEN /\ pc' = [pc EXCEPT ![p] = "L67"]
            /\ UNCHANGED << shared, mutex, returning, op, id, given, user, res, history >>
       ELSE /\ UNCHANGED mutex
            /\ Leave(p)

Update_L63_Inverted(p) ==
  /\ pc[p] = "L63"
  /\ IF ~Has(users, id[p])
       THEN /\ pc' = [pc EXCEPT ![p] = "L67"]
            /\ UNCHANGED res
       ELSE /\ pc' = [pc EXCEPT ![p] = "L61"]
            /\ res' = [res EXCEPT ![p] = [err |-> ErrNotFound, users |-> << >>]]
  /\ UNCHANGED << shared, mutex, returning, op, id, given, user, history >>

Update_L63(p) ==
  /\ pc[p] = "L63"
  /\ IF Has(users, id[p])
       THEN /\ pc' = [pc EXCEPT ![p] = "L67"]
            /\ UNCHANGED << res, caller >>
       ELSE /\ pc' = [pc EXCEPT ![p] = "L61"]
            /\ res' = [res EXCEPT ![p] = [err |-> ErrNotFound, users |-> << >>]]
            /\ caller' = Lost(p, "not found")
  /\ UNCHANGED << shared, mutex, returning, op, id, given, user,
                  returned, assignLog, deleted, apart >>

Update_L67(p) ==
  /\ pc[p] = "L67"
  /\ user' = [user EXCEPT ![p] = UpdatedUser(id[p], user[p])]
  /\ users' = Put(users, id[p], UpdatedUser(id[p], user[p]))
  /\ res' = [res EXCEPT ![p] = [err |-> ErrNone, users |-> << UpdatedUser(id[p], user[p]) >>]]
  /\ pc' = [pc EXCEPT ![p] = "L61"]
  /\ caller' = IF Has(users, id[p]) /\ users[id[p]] = caller.got[p]
                 THEN caller ELSE Lost(p, "overwritten")
  /\ UNCHANGED << nextID, mutex, returning, op, id, given, returned, assignLog, deleted,
                  apart >>

\* ---------------------------------------------------------------- Delete
Delete_L74(p) == \E i \in ArgIDs : Lock(p, "Delete", "L77", i, ZeroUser)

Delete_L77(p) ==
  /\ pc[p] = "L77"
  /\ IF Has(users, id[p])
       THEN /\ pc' = [pc EXCEPT ![p] = "L81"]
            /\ UNCHANGED res
       ELSE /\ pc' = [pc EXCEPT ![p] = "L75"]
            /\ res' = [res EXCEPT ![p] = [err |-> ErrNotFound, users |-> << >>]]
  /\ UNCHANGED << shared, mutex, returning, op, id, given, user, history >>

Delete_L81(p) ==
  /\ pc[p] = "L81"
  /\ users' = Remove(users, id[p])
  /\ deleted' = deleted \cup {id[p]}
  /\ res' = [res EXCEPT ![p] = [err |-> ErrNone, users |-> << >>]]
  /\ pc' = [pc EXCEPT ![p] = "L75"]
  /\ UNCHANGED << nextID, mutex, returning, op, id, given, user, returned, assignLog,
                  caller, apart >>

\* ---------------------------------------------------------------- return
Return(p) ==
  /\ pc[p] = "ret"
  /\ returned' = IF returning[p] # 0 THEN returned (+) SetToBag({returning[p]})
                   ELSE returned
  /\ pc' = [pc EXCEPT ![p] = "idle"]
  /\ returning' = [returning EXCEPT ![p] = 0]
  /\ UNCHANGED << shared, mutex, op, id, given, user, res, assignLog, deleted, caller, apart >>

\* -------------------------------------------------------------- handlers
\* The handlers of internal/handlers (part_003).  A handler that gets past
\* its checks calls one store method, with the id its path parses to and the
\* user its body binds to: that call is the goroutine's CallRead or
\* CallWrite.  A handler whose path does not parse or whose body does not
\* bind writes 400 and returns without calling the store: the goroutine goes
\* to the line that writes the response (H172, ...) and back to idle.
ErrInvalidUserID == "Invalid user ID"
ErrUserNotFound == "User not found"

NoResponse == [status |-> 0, error |-> "", users |-> << >>]

BadRequest(p, line) ==
  /\ pc[p] = "idle"
  /\ pc' = [pc EXCEPT ![p] = line]
  /\ UNCHANGED << shared, mutex, op, id, given, user, res, returning, history >>

\* GetUser, lines 169-174.
GetUser_L172(p) ==
  /\ BadPaths # {}
  /\ BadRequest(p, "H172")

\* CreateUser, lines 195-199.
CreateUser_L197(p) ==
  /\ BadBodies # {}
  /\ BadRequest(p, "H197")

UpdateUserChecks_BodyFirst(s, b) ==
  IF ShouldBindJSON(b).err # ErrNone THEN "H231"
  ELSE IF Atoi(s).err # ErrNone THEN "H225"
  ELSE "L235"

\* UpdateUser, lines 222-235: the path is parsed first and the body bound
\* next; the result is the line that writes 400, or line 235, the store call.
UpdateUserChecks(s, b) ==
  IF Atoi(s).err # ErrNone THEN "H225"
  ELSE IF ShouldBindJSON(b).err # ErrNone THEN "H231"
  ELSE "L235"

UpdateUserOutcomes == { UpdateUserChecks(s, b) : s \in Paths, b \in Bodies }

\* UpdateUser, lines 222-227.
UpdateUser_L225(p) ==
  /\ "H225" \in UpdateUserOutcomes
  /\ BadRequest(p, "H225")

\* UpdateUser, lines 229-233.
UpdateUser_L231(p) ==
  /\ "H231" \in UpdateUserOutcomes
  /\ BadRequest(p, "H231")

\* DeleteUser, lines 254-259.
DeleteUser_L257(p) ==
  /\ BadPaths # {}
  /\ BadRequest(p, "H257")

BadRequestLines == {"H172", "H197", "H225", "H231", "H257"}

\* The handler returns after writing 400.
HandlerReturn(p) ==
  /\ pc[p] \in BadRequestLines
  /\ pc' = [pc EXCEPT ![p] = "idle"]
  /\ UNCHANGED << shared, mutex, op, id, given, user, res, returning, history >>

\* What each handler writes for the result r of its store call.
GetUsersResponse(r) ==
  IF r.err # ErrNone
    THEN [status |-> StatusInternalServerError, error |-> r.err, users |-> << >>]
    ELSE [status |-> StatusOK, error |-> "", users |-> r.users]

GetUserResponse_AlwaysOK(r) ==
  [status |-> StatusOK, error |-> "", users |-> r.users]

GetUserResponse(r) ==
  IF r.err # ErrNone
    THEN [status |-> StatusNotFound, error |-> ErrUserNotFound, users |-> << >>]
    ELSE [status |-> StatusOK, error |-> "", users |-> r.users]

CreateUserResponse_Echoes(r, u) ==
  IF r.err # ErrNone
    THEN [status |-> StatusInternalServerError, error |-> r.err, users |-> << >>]
    ELSE [status |-> StatusCreated, error |-> "", users |-> << u >>]

\* u is the user the body has bound to; the handler answers with the user
\* the store returns.
CreateUserResponse(r, u) ==
  IF r.err # ErrNone
    THEN [status |-> StatusInternalServerError, error |-> r.err, users |-> << >>]
    ELSE [status |-> StatusCreated, error |-> "", users |-> r.users]

UpdateUserResponse_Echoes(r, u) ==
  IF r.err # ErrNone
    THEN [status |-> StatusNotFound, error |-> ErrUserNotFound, users |-> << >>]
    ELSE [status |-> StatusOK, error |-> "", users |-> << u >>]

UpdateUserResponse(r, u) ==
  IF r.err # ErrNone
    THEN [status |-> StatusNotFound, error |-> ErrUserNotFound, users |-> << >>]
    ELSE [status |-> StatusOK, error |-> "", users |-> r.users]

DeleteUserResponse_AlwaysNoContent(r) ==
  [status |-> StatusNoContent, error |-> "", users |-> << >>]

DeleteUserResponse(r) ==
  IF r.err # ErrNone
    THEN [status |-> StatusNotFound, error |-> ErrUserNotFound, users |-> << >>]
    ELSE [status |-> StatusNoContent, error |-> "", users |-> << >>]

\* The response of the request goroutine p serves, once it is decided: at
\* the line that writes 400, or when the store call has its result.
Response(p) ==
  CASE pc[p] \in {"H172", "H225", "H257"} ->
         [status |-> StatusBadRequest, error |-> ErrInvalidUserID, users |-> << >>]
    [] pc[p] \in {"H197", "H231"} ->
         [status |-> StatusBadRequest, error |-> ErrBind, users |-> << >>]
    [] pc[p] = "L26" -> GetUsersResponse(res[p])
    [] pc[p] = "L38" -> GetUserResponse(res[p])
    [] pc[p] = "L50" -> CreateUserResponse(res[p], given[p])
    [] pc[p] = "L61" -> UpdateUserResponse(res[p], given[p])
    [] pc[p] = "L75" -> DeleteUserResponse(res[p])
    [] OTHER -> NoResponse

\* ------------------------------------------------------------------ Next
Next ==
  \E p \in Procs :
    \/ CallRead(p)
    \/ CallWrite(p)
    \/ GetAll_L25(p)
    \/ GetAll_L28(p)
    \/ GetByID_L37(p)
    \/ GetByID_L40(p)
    \/ Create_L49(p)
    \/ Create_L52(p)
    \/ Create_L53(p)
    \/ Create_L54(p)
    \/ Update_L60(p)
    \/ Update_L63(p)
    \/ Update_L67(p)
    \/ Delete_L74(p)
    \/ Delete_L77(p)
    \/ Delete_L81(p)
    \/ RUnlock(p)
    \/ Unlock(p)
    \/ Return(p)

Spec == Init /\ [][Next]_vars

\* The store under callers that keep what they read.
CallerSpec == CallerInit /\ [][Next]_vars

\* The server: requests served by the handlers, over the store.
HandlerNext ==
  \/ Next
  \/ \E p \in Procs :
       \/ GetUser_L172(p)
       \/ CreateUser_L197(p)
       \/ UpdateUser_L225(p)
       \/ UpdateUser_L231(p)
       \/ DeleteUser_L257(p)
       \/ HandlerReturn(p)

HandlerSpec == Init /\ [][HandlerNext]_vars

\* ------------------------------------------------------------ app.New
\* app.New (part_003 lines 23-47) makes the store and creates the users of
\* app in it, one after the other, before it makes the handler and the
\* router; Run serves requests after New has returned.  The goroutine that
\* runs New is Main; a start-up Create is the Create of the store, called
\* with the next user of app.
Main == 1

\* The Creates of New have not all returned.
StartingUp == BagCardinality(returned) < Len(app)

New_L33_Reversed(p) ==
  /\ Len(assignLog) < Len(app)
  /\ Lock(p, "Create", "L52", 0, app[Len(app) - Len(assignLog)])

\* Lines 33-34: the call of Create with the next user of app.
New_L33(p) ==
  /\ Len(assignLog) < Len(app)
  /\ Lock(p, "Create", "L52", 0, app[Len(assignLog) + 1])

AppInit == Start(FALSE) /\ config = NotLoading /\ app = SeedUsers /\ test = NoTest

AppNext ==
  \/ /\ StartingUp
     /\ \/ CallWrite(Main)
        \/ New_L33(Main)
        \/ Create_L52(Main)
        \/ Create_L53(Main)
        \/ Create_L54(Main)
        \/ Unlock(Main)
        \/ Return(Main)
  \/ /\ ~StartingUp
     /\ Next

AppSpec == AppInit /\ [][AppNext]_vars

\* -------------------------------------------------------------- tests
\* A test of the store (part_001) makes stores with NewMemoryUserStore and
\* calls their methods one call at a time, so that every call runs from
\* Lock to Unlock alone and leaves the mutex of its store as it found it.
\* test.maps are the maps made so far, test.stores the stores, each with a
\* reference to its map (an index of test.maps) and its counter.
\*
\* GetByID, Create and Update return a pointer: `&user` is the address of
\* the method's own variable user, a copy of what the map holds (lines 40,
\* 48, 59), and GetAll returns a slice it has made and appended copies to
\* (lines 28-30).  A returned user is kept at a place: a place of its own,
\* or the place the map of a store keeps the user of an id at.
OwnPlace == [kind |-> "own", map |-> 0, id |-> 0]

MapPlace(ref, i) == [kind |-> "map", map |-> ref, id |-> i]

PlaceOfResult_InMap(ref, i) == MapPlace(ref, i)

\* Lines 30, 44, 55, 69: where the user a method returns is kept.
PlaceOfResult(ref, i) == OwnPlace

NewMemoryUserStore_SharesMap(t) ==
  [t EXCEPT !.maps = IF @ = << >> THEN << << >> >> ELSE @,
            !.stores = Append(@, [users |-> 1, nextID |-> InitialNextID]),
            !.written = Append(@, << >>),
            !.last = [NoCall EXCEPT !.store = Len(t.stores) + 1, !.method = "New"]]

\* Lines 16-21: a new map, and a store with a reference to it and counter 1.
NewMemoryUserStore(t) ==
  [t EXCEPT !.maps = Append(@, << >>),
            !.stores = Append(@, [users |-> Len(t.maps) + 1, nextID |-> InitialNextID]),
            !.written = Append(@, << >>),
            !.last = [NoCall EXCEPT !.store = Len(t.stores) + 1, !.method = "New"]]

\* The stores a test makes: two.
TestStores == {1, 2}

Test_New ==
  /\ Len(test.stores) < Cardinality(TestStores)
  /\ test' = NewMemoryUserStore(test)
  /\ UNCHANGED << served, config >>

\* The map of store k of the test.
MapOf(t, k) == t.maps[t.stores[k].users]

Returned(k, method, r, places) ==
  [store |-> k, method |-> method, err |-> r.err, vals |-> r.users, at |-> places]

\* Create, lines 48-56.
Test_Create(k, u) ==
  /\ k \in DOMAIN test.stores
  /\ test.stores[k].nextID <= MaxCreates
  /\ LET ref == test.stores[k].users
         r   == [u EXCEPT !.ID = AssignedID(u, test.stores[k].nextID)]
     IN  test' = [test EXCEPT
                    !.stores[k].nextID = NextIDAfterCreate(@),
                    !.maps[ref] = Put(@, r.ID, r),
                    !.written[k] = Put(@, r.ID, r),
                    !.last = Returned(k, "Create", [err |-> ErrNone, users |-> << r >>],
                                      << PlaceOfResult(ref, r.ID) >>)]
  /\ UNCHANGED << served, config >>

\* GetByID, lines 36-45.
Test_GetByID(k, i) ==
  /\ k \in DOMAIN test.stores
  /\ LET ref == test.stores[k].users
         r   == Lookup(test.maps[ref], i)
     IN  test' = [test EXCEPT
                    !.last = Returned(k, "GetByID", r,
                                      [j \in DOMAIN r.users |-> PlaceOfResult(ref, i)])]
  /\ UNCHANGED << served, config >>

\* GetAll, lines 24-33.
Test_GetAll(k) ==
  /\ k \in DOMAIN test.stores
  /\ LET ref == test.stores[k].users
     IN  \E sl \in Slices(test.maps[ref]) :
           test' = [test EXCEPT
                      !.last = Returned(k, "GetAll", [err |-> ErrNone, users |-> sl],
                                        [j \in DOMAIN sl |-> PlaceOfResult(ref, sl[j].ID)])]
  /\ UNCHANGED << served, config >>

\* Update, lines 59-70.
Test_Update(k, i, u) ==
  /\ k \in DOMAIN test.stores
  /\ LET ref == test.stores[k].users
         r   == UpdatedUser(i, u)
     IN  IF Has(test.maps[ref], i)
           THEN test' = [test EXCEPT
                           !.maps[ref] = Put(@, i, r),
                           !.written[k] = Put(@, i, r),
                           !.last = Returned(k, "Update", [err |-> ErrNone, users |-> << r >>],
                                             << PlaceOfResult(ref, i) >>)]
           ELSE test' = [test EXCEPT
                           !.last = Returned(k, "Update",
                                             [err |-> ErrNotFound, users |-> << >>], << >>)]
  /\ UNCHANGED << served, config >>

\* Delete, lines 73-83.
Test_Delete(k, i) ==
  /\ k \in DOMAIN test.stores
  /\ LET ref == test.stores[k].users
     IN  IF Has(test.maps[ref], i)
           THEN test' = [test EXCEPT
                           !.maps[ref] = Remove(@, i),
                           !.written[k] = Remove(@, i),
                           !.last = Returned(k, "Delete", [err |-> ErrNone, users |-> << >>], << >>)]
           ELSE test' = [test EXCEPT
                           !.last = Returned(k, "Delete",
                                             [err |-> ErrNotFound, users |-> << >>], << >>)]
  /\ UNCHANGED << served, config >>

\* The test changes the fields of the j-th user its last call returned, once:
\* what is kept at that place changes, in the map too if the place is the
\* map's.
Scribbled(u) == [ID |-> u.ID + 100, Name |-> "scribbled", Email |-> "scribbled"]

Test_Mutate(j) ==
  /\ test.last.method \in {"GetAll", "GetByID", "Create", "Update"}
  /\ j \in DOMAIN test.last.vals
  /\ LET place == test.last.at[j]
         u     == Scribbled(test.last.vals[j])
     IN  test' = [test EXCEPT
                    !.last.vals[j] = u,
                    !.last.method = "mutated",
                    !.maps = IF place.kind = "map" /\ Has(test.maps[place.map], place.id)
                               THEN [@ EXCEPT ![place.map] = Put(@, place.id, u)]
                               ELSE @]
  /\ UNCHANGED << served, config >>

TestInit == Start(FALSE) /\ config = NotLoading /\ app = NoSeeds /\ test = NoTest

TestNext ==
  \/ Test_New
  \/ \E k \in TestStores :
       \/ \E u \in Candidates : Test_Create(k, u)
       \/ \E i \in ArgIDs : Test_GetByID(k, i)
       \/ Test_GetAll(k)
       \/ \E i \in ArgIDs, u \in Candidates : Test_Update(k, i, u)
       \/ \E i \in ArgIDs : Test_Delete(k, i)
  \/ \E j \in 1..MaxCreates : Test_Mutate(j)

TestSpec == TestInit /\ [][TestNext]_vars

\* ----------------------------------------------------------- config.Load
\* A run of Load (config.go lines 42-71) in an environment and over a file
\* system that do not change while it runs.  config.pc is the line Load is
\* about to execute.
\* Lines 44-57: cfg gets the defaults.
Load_L44 ==
  /\ config.pc = "L44"
  /\ config' = [config EXCEPT !.cfg = Defaults, !.pc = "L60"]
  /\ UNCHANGED << served, test >>

\* Lines 60-61.
Load_L60 ==
  /\ config.pc = "L60"
  /\ LET configFile == getConfigFile(config.environ, config.fs)
     IN  config' = [config EXCEPT !.configFile = configFile,
                                  !.pc = IF configFile # NoFile THEN "L62" ELSE "L68"]
  /\ UNCHANGED << served, test >>

\* Lines 62-64.
Load_L62 ==
  /\ config.pc = "L62"
  /\ LET r == loadFromFile(config.cfg, config.configFile, config.fs)
     IN  IF r.err # ErrNone
           THEN config' = [config EXCEPT !.ret = [cfg |-> NilConfig, err |-> ErrLoad],
                                         !.pc = "done"]
           ELSE config' = [config EXCEPT !.cfg = r.cfg, !.pc = "L68"]
  /\ UNCHANGED << served, test >>

\* Line 68.
Load_L68 ==
  /\ config.pc = "L68"
  /\ config' = [config EXCEPT !.cfg = loadFromEnv(config.cfg, config.environ), !.pc = "L70"]
  /\ UNCHANGED << served, test >>

\* Line 70.
Load_L70 ==
  /\ config.pc = "L70"
  /\ config' = [config EXCEPT !.ret = [cfg |-> config.cfg, err |-> ErrNone], !.pc = "done"]
  /\ UNCHANGED << served, test >>

ConfigInit ==
  /\ Start(FALSE)
  /\ config \in { [NotLoading EXCEPT !.environ = e, !.fs = f, !.pc = "L44"] :
                    e \in Environs, f \in FileSystems }
  /\ app = NoSeeds
  /\ test = NoTest

ConfigNext == Load_L44 \/ Load_L60 \/ Load_L62 \/ Load_L68 \/ Load_L70

ConfigSpec == ConfigInit /\ [][ConfigNext]_vars

\* ------------------------------------------------------------- fairness
\* The steps a goroutine takes without waiting for anybody: the lines it runs
\* while it holds the lock, its deferred unlock and its return.
Running(p) ==
  \/ GetAll_L28(p)
  \/ GetByID_L40(p)
  \/ Create_L52(p)
  \/ Create_L53(p)
  \/ Create_L54(p)
  \/ Update_L63(p)
  \/ Update_L67(p)
  \/ Delete_L77(p)
  \/ Delete_L81(p)
  \/ RUnlock(p)
  \/ Unlock(p)
  \/ Return(p)

AcquireRead(p) == GetAll_L25(p) \/ GetByID_L37(p)

AcquireWrite(p) == Create_L49(p) \/ Update_L60(p) \/ Delete_L74(p)

\* A fair scheduler: a goroutine that can run does run, and a goroutine
\* blocked in RLock or Lock gets the lock if it stays or keeps becoming free
\* (sync.Mutex hands the lock to a waiter that would otherwise starve).
\* Nothing obliges an idle goroutine to call the store.
Fairness ==
  \A p \in Procs :
    /\ WF_vars(Running(p))
    /\ WF_vars(AcquireRead(p))
    /\ SF_vars(AcquireWrite(p))

LiveSpec == Init /\ [][Next]_vars /\ Fairness

\* ===================================================================
\* Properties
\* ===================================================================
StrictlyIncreasing(s) == \A i, j \in DOMAIN s : i < j => s[i] < s[j]

Distinct(s) == \A i, j \in DOMAIN s : i # j => s[i] # s[j]

IDs(s) == {s[i].ID : i \in DOMAIN s}

\* The goroutines that have assigned an id in Create and still hold the lock.
CreateAssigned(p) == pc[p] \in {"L53", "L54", "L50"}

Succeeded(p) == res[p].err = ErrNone

\* A Create has released the lock and is about to return to its caller.
CreateReturning(p) == pc[p] = "ret" /\ returning[p] # 0

ReturnedIDs == BagToSet(returned)

\* ------------------------------------------------------------------ C1
\* C1 as stated: the ids Create returns are strictly increasing in the order
\* in which the calls return to their callers, i.e. a Create that is about to
\* return hands out an id larger than every id returned before.  Fails: a
\* Create that has released the lock can be overtaken, before it returns, by
\* a later Create.
C1_IncreasingInCompletionOrder ==
  \A p \in Procs : CreateReturning(p) => \A i \in ReturnedIDs : i < returning[p]

\* C1 amended: the ids Create returns are pairwise distinct and strictly
\* increasing in the order in which the calls hold the write lock (assign
\* their id at line 52); a Create that gets the lock after another Create has
\* returned is given an id larger than the returned one.
C1_DistinctIncreasingInLockOrder ==
  /\ \A i \in ReturnedIDs : CopiesIn(i, returned) = 1
  /\ StrictlyIncreasing(assignLog)
  /\ ReturnedIDs \subseteq Range(assignLog)
  /\ \A p, q \in Procs : (p # q /\ CreateReturning(p)) => returning[p] # returning[q]
  /\ \A p \in Procs : \A i \in ReturnedIDs :
        /\ CreateReturning(p) => returning[p] # i
        /\ CreateAssigned(p) => i < user[p].ID

\* Two Creates overlapped: the one with the smaller id returns last.
C1_Witness ==
  \E p \in Procs : CreateReturning(p) /\ \E i \in ReturnedIDs : i > returning[p]

\* ------------------------------------------------------------------ C2
\* C2: when no Create holds the lock and nothing was deleted (in particular
\* when concurrent Creates on the empty store have all returned), the store
\* holds exactly one record per Create, under pairwise distinct ids (no lost
\* update), and no Create ends in an error.
C2_ConcurrentCreatesAllStored ==
  /\ \A p \in Procs : pc[p] = "L50" => Succeeded(p)
  /\ (deleted = {} /\ \A p \in Procs : op[p] # "Create") =>
        /\ Cardinality(DOMAIN users) = Len(assignLog)
        /\ DOMAIN users = Range(assignLog)
        /\ Distinct(assignLog)
  /\ (deleted = {} /\ BagCardinality(returned) = Len(assignLog)) =>
        /\ Cardinality(DOMAIN users) = BagCardinality(returned)
        /\ DOMAIN users = ReturnedIDs

\* MaxCreates Creates have all returned, every goroutine is idle again, and
\* all their records are stored.
C2_Witness ==
  /\ deleted = {}
  /\ BagCardinality(returned) = MaxCreates
  /\ \A p \in Procs : pc[p] = "idle"
  /\ Cardinality(DOMAIN users) = MaxCreates

\* ------------------------------------------------------------------ C3
\* C3: once Delete has removed id, the id is not in the map again; a GetByID
\* or Update of it that holds the lock afterwards ends in "user not found",
\* no Update or Delete of it gets past its existence check (lines 63, 77),
\* and no Create assigns it.
C3_DeletionFinality ==
  /\ \A i \in deleted : ~Has(users, i)
  /\ \A p \in Procs :
        /\ (pc[p] \in {"L38", "L61"} /\ id[p] \in deleted) =>
              res[p] = [err |-> ErrNotFound, users |-> << >>]
        /\ pc[p] \in {"L67", "L81"} => id[p] \notin deleted
        /\ CreateAssigned(p) => user[p].ID \notin deleted

\* A GetByID of a deleted id is about to return, after a later Create.
C3_Witness ==
  \E p \in Procs :
    /\ pc[p] = "L38"
    /\ id[p] \in deleted
    /\ res[p].err = ErrNotFound
    /\ \E i \in DOMAIN users : \E d \in deleted : d < i

\* ------------------------------------------------------------------ C4
\* C4: the record r a Create returns is the record stored under r.ID, with
\* the name and email the caller passed, so that a lookup of r.ID with no
\* write in between yields r; and what a GetByID returns is the lookup of its
\* id in the map as it is while the read lock is held.
C4_RoundTrip ==
  \A p \in Procs :
    /\ pc[p] = "L50" =>
          /\ Succeeded(p)
          /\ Lookup(users, res[p].users[1].ID) = res[p]
          /\ res[p].users[1].Name = given[p].Name
          /\ res[p].users[1].Email = given[p].Email
    /\ pc[p] = "L38" => res[p] = Lookup(users, id[p])

\* A GetByID of the id handed out last finds the record while the Create
\* that stored it is still returning: no write came in between.
C4_Witness ==
  \E p, q \in Procs :
    /\ pc[p] = "L38"
    /\ Succeeded(p)
    /\ CreateReturning(q)
    /\ id[p] = returning[q]
    /\ res[p].users[1].ID = returning[q]
    /\ nextID = returning[q] + 1

\* ------------------------------------------------------------------ C5
\* C5: while nothing has been deleted, GetAll returns exactly one record per
\* Create that has run: as many records as ids were assigned, and the set of
\* their ids is the set of assigned ids (the ids returned, once every Create
\* has returned).
C5_ListCompleteness ==
  \A p \in Procs :
    (pc[p] = "L26" /\ deleted = {}) =>
      /\ Succeeded(p)
      /\ Len(res[p].users) = Len(assignLog)
      /\ IDs(res[p].users) = Range(assignLog)
      /\ (\A q \in Procs : ~CreateReturning(q)) =>
            /\ Len(res[p].users) = BagCardinality(returned)
            /\ IDs(res[p].users) = ReturnedIDs

\* GetAll returns MaxCreates records, none deleted, every Create returned.
C5_Witness ==
  \E p \in Procs :
    /\ pc[p] = "L26"
    /\ deleted = {}
    /\ Len(res[p].users) = MaxCreates
    /\ BagCardinality(returned) = MaxCreates

\* ------------------------------------------------------------------ C6
\* C6: GetAll returns exactly the records created and not deleted: one entry
\* per id that was assigned and not removed, each the record stored under
\* that id, and no entry for a deleted id.
C6_ListAfterDeletes ==
  \A p \in Procs :
    pc[p] = "L26" =>
      /\ IDs(res[p].users) = Range(assignLog) \ deleted
      /\ Len(res[p].users) = Cardinality(Range(assignLog) \ deleted)
      /\ \A k \in DOMAIN res[p].users :
            Lookup(users, res[p].users[k].ID).users = << res[p].users[k] >>

\* Two records created, the first deleted: GetAll yields only the second.
C6_Witness ==
  \E p \in Procs :
    /\ pc[p] = "L26"
    /\ deleted = {1}
    /\ Len(res[p].users) = 1
    /\ res[p].users[1].ID = 2

\* ------------------------------------------------------------------ C7
\* C7: a successful Update(id, candidate) returns a record whose ID is id,
\* whatever ID the candidate carries.
C7_UpdatePreservesIdentity ==
  \A p \in Procs :
    (pc[p] = "L61" /\ Succeeded(p)) =>
      /\ Len(res[p].users) = 1
      /\ res[p].users[1].ID = id[p]

\* An Update whose candidate carries another id has succeeded.
C7_Witness ==
  \E p \in Procs :
    /\ pc[p] = "L61"
    /\ Succeeded(p)
    /\ given[p].ID # id[p]
    /\ res[p].users[1].ID = id[p]

\* ------------------------------------------------------------------ C8
\* C8: the k-th Create to run is given id k (the first one id 1) and returns
\* it, whatever other calls ran in between.
C8_SequentialIDs ==
  /\ \A k \in DOMAIN assignLog : assignLog[k] = k
  /\ \A p \in Procs :
        /\ CreateAssigned(p) => user[p].ID = Len(assignLog)
        /\ pc[p] = "L50" => res[p].users[1].ID = Len(assignLog)

\* The second Create returns id 2 after the first record was deleted.
C8_Witness ==
  \E p \in Procs :
    /\ pc[p] = "L50"
    /\ res[p].users[1].ID = 2
    /\ deleted = {1}

\* ------------------------------------------------------------------ C9
\* C9: the id Create assigns is the counter's value, not the candidate's id;
\* the record is stored under the assigned id with the name and email as
\* given (empty strings included), and nothing is stored under the
\* candidate's id unless the counter handed that id out.
C9_CreateIgnoresCallerID ==
  /\ ~Has(users, CallerID)
  /\ \A p \in Procs :
        pc[p] = "L50" =>
          /\ res[p].users[1].ID = nextID - 1
          /\ Has(users, nextID - 1)
          /\ users[nextID - 1] = [given[p] EXCEPT !.ID = nextID - 1]
          /\ res[p].users[1] = users[nextID - 1]
          /\ given[p].ID \notin Range(assignLog) => ~Has(users, given[p].ID)

\* Create of the candidate with id 999 and an empty email on the empty store
\* returns id 1, and a lookup of 999 fails.
C9_Witness ==
  \E p \in Procs :
    /\ pc[p] = "L50"
    /\ given[p].ID = CallerID
    /\ given[p].Email = ""
    /\ res[p].users[1].ID = 1
    /\ DOMAIN users = {1}
    /\ Lookup(users, CallerID).err = ErrNotFound

\* ----------------------------------------------------------------- C10
\* C10: the counter is the initial value plus the number of Creates that
\* have executed line 53, so it grows by one per Create and no other method
\* changes it; every id handed out or deleted is below it, and no id is
\* handed out twice.
C10_CounterMonotone ==
  /\ nextID = InitialNextID + Len(assignLog)
                 - Cardinality({p \in Procs : pc[p] = "L53"})
  /\ \A i \in deleted : i < nextID
  /\ \A i \in DOMAIN users : i < nextID
  /\ Distinct(assignLog)

\* All MaxCreates ids are handed out, the last one by a Create that ran
\* after a deletion.
C10_Witness ==
  \E p \in Procs :
    /\ pc[p] = "L50"
    /\ nextID = InitialNextID + MaxCreates
    /\ deleted # {}
    /\ given[p].ID = CallerID

\* ----------------------------------------------------------------- C11
\* C11: the record stored under key k has ID k and k is positive, so the
\* records GetAll returns have pairwise distinct ids; an Update whose
\* candidate carries another id leaves the stored ID equal to the key.
C11_StoredIDIsKey ==
  /\ \A k \in DOMAIN users : users[k].ID = k /\ k > 0
  /\ \A p \in Procs :
        pc[p] = "L26" =>
          /\ \A i, j \in DOMAIN res[p].users :
                i # j => res[p].users[i].ID # res[p].users[j].ID
          /\ \A i \in DOMAIN res[p].users : res[p].users[i].ID > 0

\* An Update with a candidate of another id has stored its record, next to
\* a second record.
C11_Witness ==
  \E p \in Procs :
    /\ pc[p] = "L61"
    /\ Succeeded(p)
    /\ given[p].ID \notin {0, id[p]}
    /\ users[id[p]].ID = id[p]
    /\ users[id[p]].Name = given[p].Name
    /\ Cardinality(DOMAIN users) = 2

\* ----------------------------------------------------------------- C12
\* C12: GetByID(id) ends in "user not found" with no record exactly when id
\* is not a key of the map while it holds the lock, which is the case for a
\* negative id, 0, an id not handed out and a deleted id; otherwise it
\* returns the stored record and no error.
C12_GetNotFoundIffAbsent ==
  \A p \in Procs :
    pc[p] = "L38" =>
      /\ res[p].err = ErrNotFound <=> id[p] \notin DOMAIN users
      /\ res[p].err = ErrNotFound => res[p].users = << >>
      /\ res[p].err # ErrNotFound =>
            /\ res[p].err = ErrNone
            /\ res[p].users = << users[id[p]] >>
      /\ (id[p] <= 0 \/ id[p] \notin Range(assignLog) \/ id[p] \in deleted) =>
            res[p].err = ErrNotFound

\* GetByID of a negative id fails on a store that holds a record.
C12_Witness ==
  \E p \in Procs :
    /\ pc[p] = "L38"
    /\ id[p] < 0
    /\ res[p] = [err |-> ErrNotFound, users |-> << >>]
    /\ users # << >>

\* ----------------------------------------------------------------- C13
NotFoundResult == [err |-> ErrNotFound, users |-> << >>]

\* An Update or Delete is at its existence check and its id is not stored.
MissingAtCheck(p) == pc[p] \in {"L63", "L77"} /\ id[p] \notin DOMAIN users

\* An Update or Delete has failed and is about to unlock.
FailedWrite(p) == pc[p] \in {"L61", "L75"} /\ res[p].err = ErrNotFound

\* C13: an Update or Delete of an id that is not in the map ends in "user
\* not found", and from its existence check to its unlock no step changes
\* the map or the counter (no record is created for the missing id).
C13_NotFoundChangesNothing ==
  [][\A p \in Procs :
       /\ (MissingAtCheck(p) /\ pc'[p] # pc[p]) =>
             /\ pc'[p] = (IF pc[p] = "L63" THEN "L61" ELSE "L75")
             /\ res'[p] = NotFoundResult
       /\ (MissingAtCheck(p) \/ FailedWrite(p)) =>
             /\ users' = users
             /\ nextID' = nextID
             /\ id[p] \notin DOMAIN users']_vars

\* Update of an id that is not stored has failed on a store with a record.
C13_Witness ==
  \E p \in Procs :
    /\ pc[p] = "L61"
    /\ res[p] = NotFoundResult
    /\ id[p] \notin DOMAIN users
    /\ users # << >>

\* ----------------------------------------------------------------- C14
\* C14: the step of a successful Update that stores (line 68) replaces the
\* record under id by the candidate's name and email with ID id, so that a
\* lookup of id yields what Update returns; the other records, the set of
\* keys and the counter stay as they are, and no other step of an Update
\* changes the map or the counter.
C14_UpdateFrame ==
  [][\A p \in Procs :
       /\ (pc[p] = "L67" /\ pc'[p] = "L61") =>
             /\ DOMAIN users' = DOMAIN users
             /\ users'[id[p]] = [ID |-> id[p], Name |-> given[p].Name,
                                  Email |-> given[p].Email]
             /\ \A k \in DOMAIN users \ {id[p]} : users'[k] = users[k]
             /\ nextID' = nextID
             /\ res'[p].err = ErrNone
             /\ Lookup(users', id[p]) = res'[p]
       /\ (op[p] = "Update" /\ ~(pc[p] = "L67" /\ pc'[p] = "L61")) =>
             /\ users' = users
             /\ nextID' = nextID]_vars

\* An Update has replaced the name and email of one of two records.
C14_Witness ==
  \E p \in Procs :
    /\ pc[p] = "L61"
    /\ Succeeded(p)
    /\ Cardinality(DOMAIN users) = 2
    /\ users[id[p]] = res[p].users[1]
    /\ \E k \in DOMAIN users : users[k].Name # users[id[p]].Name

\* ----------------------------------------------------------------- C15
\* C15: the step of a successful Delete that removes (line 81) takes the key
\* id out of the map and nothing else: every other record stays under its
\* key with the same id, name and email, a lookup of it yields what it
\* yielded before, and the counter is unchanged.
C15_DeleteFrame ==
  [][\A p \in Procs :
       (pc[p] = "L81" /\ pc'[p] = "L75") =>
         /\ DOMAIN users' = DOMAIN users \ {id[p]}
         /\ id[p] \in DOMAIN users
         /\ \A k \in DOMAIN users \ {id[p]} :
               /\ users'[k] = users[k]
               /\ Lookup(users', k) = Lookup(users, k)
         /\ Lookup(users', id[p]).err = ErrNotFound
         /\ nextID' = nextID
         /\ res'[p].err = ErrNone]_vars

\* A Delete has succeeded and another record is still stored.
C15_Witness ==
  \E p \in Procs :
    /\ pc[p] = "L75"
    /\ Succeeded(p)
    /\ id[p] \notin DOMAIN users
    /\ users # << >>

\* ----------------------------------------------------------------- C16
\* C16: GetAll and Create never end in an error, GetAll on the empty map
\* returns the empty slice, and the only error any method produces is "user
\* not found", by GetByID, Update or Delete.
C16_OnlyNotFound ==
  \A p \in Procs :
    /\ pc[p] \in {"L26", "L50"} => res[p].err = ErrNone
    /\ (pc[p] = "L26" /\ users = << >>) => res[p].users = << >>
    /\ res[p].err \in {ErrNone, ErrNotFound}
    /\ res[p].err = ErrNotFound => pc[p] \in {"L38", "L61", "L75"}

\* GetAll returns the empty slice and no error after the last record was
\* deleted.
C16_Witness ==
  \E p \in Procs :
    /\ pc[p] = "L26"
    /\ res[p] = [err |-> ErrNone, users |-> << >>]
    /\ deleted # {}

\* ----------------------------------------------------------------- C17
\* The atomic map-plus-counter the store is compared with: each operation
\* takes a state [users, nextID] and gives the state after it and its result.
AtomicCreate(a, u) ==
  LET r == [ID |-> a.nextID, Name |-> u.Name, Email |-> u.Email]
  IN  [st  |-> [users  |-> [k \in DOMAIN a.users \cup {a.nextID} |->
                              IF k = a.nextID THEN r ELSE a.users[k]],
                nextID |-> a.nextID + 1],
       res |-> [err |-> ErrNone, users |-> << r >>]]

AtomicUpdate(a, i, u) ==
  LET r == [ID |-> i, Name |-> u.Name, Email |-> u.Email]
  IN  IF i \in DOMAIN a.users
        THEN [st  |-> [users  |-> [k \in DOMAIN a.users |-> IF k = i THEN r ELSE a.users[k]],
                       nextID |-> a.nextID],
              res |-> [err |-> ErrNone, users |-> << r >>]]
        ELSE [st |-> a, res |-> [err |-> ErrNotFound, users |-> << >>]]

AtomicDelete(a, i) ==
  IF i \in DOMAIN a.users
    THEN [st  |-> [users  |-> [k \in DOMAIN a.users \ {i} |-> a.users[k]],
                   nextID |-> a.nextID],
          res |-> [err |-> ErrNone, users |-> << >>]]
    ELSE [st |-> a, res |-> [err |-> ErrNotFound, users |-> << >>]]

AtomicGet(a, i) ==
  IF i \in DOMAIN a.users
    THEN [st |-> a, res |-> [err |-> ErrNone, users |-> << a.users[i] >>]]
    ELSE [st |-> a, res |-> [err |-> ErrNotFound, users |-> << >>]]

\* List returns the records in any order: r is a result of List on a.
IsAtomicList(a, r) ==
  /\ r.err = ErrNone
  /\ Len(r.users) = Cardinality(DOMAIN a.users)
  /\ Range(r.users) = {a.users[k] : k \in DOMAIN a.users}

\* The state of the atomic store that the store stands for: its map, and its
\* counter, except that a Create that has incremented the counter and not
\* yet stored its record (line 54) has not taken effect.
Abs ==
  [users  |-> users,
   nextID |-> IF \E p \in Procs : pc[p] = "L54" THEN nextID - 1 ELSE nextID]

\* The one step at which a call takes effect, between its call and its
\* return: the store of Create, the failed check or the store of Update, the
\* failed check or the removal of Delete, the read of GetByID and GetAll.
TakesEffect(p) ==
  << pc[p], pc'[p] >> \in { << "L54", "L50" >>, << "L63", "L61" >>, << "L67", "L61" >>,
                            << "L77", "L75" >>, << "L81", "L75" >>,
                            << "L40", "L38" >>, << "L28", "L26" >> }

\* The call has taken effect and holds its result until it unlocks.
HasResult(p) == pc[p] \in {"L50", "L61", "L75", "L38", "L26"}

\* What the atomic store does and returns for the call p is in.
AtomicStep(p) ==
  CASE op[p] = "Create"  -> AtomicCreate(Abs, given[p])
    [] op[p] = "Update"  -> AtomicUpdate(Abs, id[p], given[p])
    [] op[p] = "Delete"  -> AtomicDelete(Abs, id[p])
    [] op[p] = "GetByID" -> AtomicGet(Abs, id[p])
    [] OTHER             -> [st |-> Abs, res |-> res'[p]]

\* C17: the store is linearizable.  Every call takes effect at one single
\* step between its call and its return; at that step the store changes as
\* the atomic map-plus-counter does under the same operation and the call's
\* result is the atomic operation's result; no other step changes the state
\* the store stands for; and the result is what the call returns.
C17_Linearizable ==
  [][/\ \A p \in Procs :
          /\ TakesEffect(p) =>
                /\ Abs' = AtomicStep(p).st
                /\ res'[p] = AtomicStep(p).res
                /\ op[p] = "GetAll" => IsAtomicList(Abs, res'[p])
          /\ (pc'[p] # pc[p] /\ HasResult(p)') => TakesEffect(p)
          /\ HasResult(p) =>
                /\ HasResult(p)' => res'[p] = res[p]
                /\ ~HasResult(p)' =>
                      /\ pc'[p] = "ret"
                      /\ (op[p] = "Create") => returning'[p] = res[p].users[1].ID
     /\ (\A p \in Procs : ~TakesEffect(p)) => Abs' = Abs]_vars

\* A Delete has removed a record whose Create has not yet returned: the two
\* calls overlap, and the Create took effect first.
C17_Witness ==
  \E p, q \in Procs :
    /\ pc[p] = "L75"
    /\ Succeeded(p)
    /\ CreateReturning(q)
    /\ id[p] = returning[q]

\* ----------------------------------------------------------------- C18
\* A goroutine is inside the critical section of Create, Update or Delete:
\* between its Lock and its deferred Unlock.
InWrite(p) ==
  pc[p] \in {"L52", "L53", "L54", "L50", "L63", "L67", "L61", "L77", "L81", "L75"}

\* A goroutine is inside the critical section of GetAll or GetByID.
InRead(p) == pc[p] \in {"L28", "L26", "L40", "L38"}

\* C18: no two goroutines are inside the critical section of a write method
\* at the same time, and no goroutine is inside the critical section of a
\* read method while another is inside that of a write method; the mutex
\* records exactly the goroutines inside.
C18_WriterExclusion ==
  /\ \A p, q \in Procs : (InWrite(p) /\ InWrite(q)) => p = q
  /\ \A p, q \in Procs : InWrite(p) => ~InRead(q)
  /\ \A p \in Procs : InWrite(p) <=> writer = p
  /\ \A p \in Procs : InRead(p) => p \in readers

\* A Create is about to store its record while another call is kept waiting
\* at RLock.
C18_Witness ==
  \E p, q \in Procs : pc[p] = "L54" /\ pc[q] = "RLock"

\* ----------------------------------------------------------------- C19
\* The name and email are those one single call wrote: of one candidate.
WrittenByOneCall(r) == \E c \in Candidates : r.Name = c.Name /\ r.Email = c.Email

\* C19: every record GetAll or GetByID returns has a non-zero id and the
\* name and email of one single Create or Update (never the name of one
\* write with the email of another, never an id still unset), and is the
\* record stored under its id.
C19_NoTornRead ==
  \A p \in Procs :
    pc[p] \in {"L26", "L38"} =>
      \A k \in DOMAIN res[p].users :
        LET r == res[p].users[k]
        IN  /\ r.ID # 0
            /\ WrittenByOneCall(r)
            /\ Has(users, r.ID)
            /\ users[r.ID] = r

\* GetAll returns two whole records, written from the two candidates, while
\* a writer waits for the lock.
C19_Witness ==
  \E p, q \in Procs :
    /\ pc[p] = "L26"
    /\ pc[q] = "Lock"
    /\ Len(res[p].users) = 2
    /\ res[p].users[1].Name # res[p].users[2].Name

\* ----------------------------------------------------------------- C20
Waiting(p) == pc[p] \in {"RLock", "Lock"}

\* Goroutine p can take a step other than calling the store.
CanProceed(p) ==
  \/ InWrite(p) \/ InRead(p) \/ pc[p] = "ret"
  \/ pc[p] = "Lock" /\ CanLock
  \/ pc[p] = "RLock" /\ (p \in readers \/ CanRLock)

\* C20: under a fair scheduler every call that waits for the lock gets it,
\* and every call that was made returns; and in no reachable state are there
\* callers waiting while no goroutine can proceed.
C20_EveryCallReturns ==
  /\ \A p \in Procs : Waiting(p) ~> (InWrite(p) \/ InRead(p))
  /\ \A p \in Procs : (pc[p] # "idle") ~> (pc[p] = "idle")
  /\ []((\E p \in Procs : Waiting(p)) => \E q \in Procs : CanProceed(q))

\* Every goroutine waits for the lock that another one holds: a writer is
\* inside, a second writer is blocked in Lock.
C20_Witness ==
  \E p, q \in Procs :
    /\ InWrite(p)
    /\ pc[q] = "Lock"
    /\ \A r \in Procs \ {p} : Waiting(r)

\* ----------------------------------------------------------------- C21
\* The caller is between two calls: it holds what the last one returned and
\* has not been given the lock for the next one (a caller blocked in RLock
\* may have been handed the read lock by an Unlock).
BetweenCalls(p) == pc[p] \in {"ret", "idle", "Lock"}

\* The goroutine is in an Update of the id of the record it holds.
UpdatesHeld(p) == op[p] = "Update" /\ HoldsRecord(p)

\* The record the caller holds is no longer what the store has under its id.
Stale(p) == ~Has(users, caller.got[p].ID) \/ users[caller.got[p].ID] # caller.got[p]

\* C21: a caller's read-then-update is not atomic.  A caller that holds the
\* record a successful GetByID returned holds no lock between its calls, so
\* the store may change under it; its following Update of that id is decided
\* by the map as it is then, not by what the caller read: it fails with
\* ErrNotFound exactly when the id is gone, which only a Delete of another
\* caller can have caused, and otherwise it stores its record without an
\* error, also over a record that is not the one the caller read.  "not
\* found" and "overwritten" are recorded for such Updates only.
C21_ReadThenUpdateNotAtomic ==
  /\ [](\A p \in Procs :
          caller.got[p] # ZeroUser /\ BetweenCalls(p) =>
            /\ writer # p
            /\ p \notin readers
            /\ caller.got[p].ID \in Range(assignLog))
  /\ []( /\ "not found" \in caller.lost => deleted # {}
         /\ caller.lost \subseteq {"not found", "overwritten"} )
  /\ [][\A p \in Procs :
          UpdatesHeld(p) =>
            /\ pc[p] = "L63" /\ pc'[p] = "L61" =>
                  /\ id[p] \in deleted
                  /\ res'[p].err = ErrNotFound
                  /\ "not found" \in caller'.lost
                  /\ users' = users
            /\ pc[p] = "L63" /\ pc'[p] = "L67" => id[p] \notin deleted
            /\ pc[p] = "L67" /\ pc'[p] = "L61" =>
                  /\ res'[p].err = ErrNone
                  /\ users'[id[p]] = UpdatedUser(id[p], user[p])
                  /\ Stale(p) <=> "overwritten" \in caller'.lost \ caller.lost
                                   \/ (Stale(p) /\ "overwritten" \in caller.lost)
         ]_vars

\* Both have happened: an Update of a held record found the id deleted, and
\* an Update of a held record was stored over another caller's update; and a
\* caller between its calls holds a record the store no longer has.
C21_Witness ==
  /\ caller.lost = {"not found", "overwritten"}
  /\ \E p \in Procs : caller.got[p] # ZeroUser /\ BetweenCalls(p) /\ Stale(p)

\* ----------------------------------------------------------------- C22
\* C22: an Update of an id that is stored passes its check and ends without
\* error, and its store keeps the set of ids and puts the Update's name and
\* email under its id; a stored record changes only by the store of an
\* Update addressed to it, so each record holds the name and email of one
\* of them; every GetAll that runs meanwhile ends without error and returns
\* as many records as there are ids, which without a Delete is the number
\* of Creates.
C22_ConcurrentUpdates ==
  [][/\ \A p \in Procs :
          /\ (pc[p] = "L63" /\ Has(users, id[p]) /\ pc'[p] # pc[p]) => pc'[p] = "L67"
          /\ (pc[p] = "L67" /\ pc'[p] = "L61") =>
                /\ res'[p].err = ErrNone
                /\ DOMAIN users' = DOMAIN users
                /\ users'[id[p]].Name = given[p].Name
                /\ users'[id[p]].Email = given[p].Email
          /\ (pc[p] = "L28" /\ pc'[p] = "L26") =>
                /\ res'[p].err = ErrNone
                /\ Len(res'[p].users) = Cardinality(DOMAIN users)
                /\ (deleted = {} /\ \A q \in Procs : op[q] # "Create") =>
                      Len(res'[p].users) = Len(assignLog)
     /\ \A k \in DOMAIN users \cap DOMAIN users' :
          users'[k] # users[k] =>
            \E p \in Procs :
              /\ pc[p] = "L67" /\ pc'[p] = "L61" /\ id[p] = k
              /\ users'[k] = [ID |-> k, Name |-> given[p].Name, Email |-> given[p].Email]]_vars

\* With nothing deleted and every id handed out, an Update has rewritten a
\* record while a GetAll is kept waiting at RLock.
C22_Witness ==
  \E p, q \in Procs :
    /\ pc[p] = "L61"
    /\ Succeeded(p)
    /\ pc[q] = "RLock"
    /\ deleted = {}
    /\ Cardinality(DOMAIN users) = MaxCreates
    /\ users[id[p]].Email = given[p].Email

\* ----------------------------------------------------------------- C28
\* The map and the counter agree: the ids lie in 1..nextID-1, nextID-1 is
\* the number of Creates that have taken effect, and the number of records
\* is that number less the number of successful Deletes.
MapAndCounterAgree ==
  /\ \A k \in DOMAIN users : 1 <= k /\ k <= nextID - 1
  /\ nextID - 1 = Len(assignLog)
  /\ Cardinality(DOMAIN users) = Len(assignLog) - Cardinality(deleted)

\* C28: in every state in which no writer is inside its critical section,
\* and so in every state in which a reader is inside its own, the map and
\* the counter agree.
C28_MapAndCounterAtomic ==
  (writer = Nobody \/ \E p \in Procs : InRead(p)) => MapAndCounterAgree

\* A GetByID reads the store after every id was handed out and one record
\* deleted, while a writer waits for the lock.
C28_Witness ==
  \E p, q \in Procs :
    /\ pc[p] = "L40"
    /\ pc[q] = "Lock"
    /\ nextID = InitialNextID + MaxCreates
    /\ Cardinality(deleted) = 1
    /\ Cardinality(DOMAIN users) = MaxCreates - 1

\* ----------------------------------------------------------------- C29
\* A goroutine is outside the store: it has returned or not yet called.
Outside(p) == pc[p] \in {"idle", "ret"}

\* C29: a goroutine that is outside the store holds neither the read lock
\* nor the write lock; every call, whatever its result ("user not found"
\* included), leaves its critical section by its deferred unlock, which
\* gives the lock up; and the lock is only ever held by goroutines inside
\* the store.
C29_LockReleasedOnReturn ==
  /\ [](\A p \in Procs : Outside(p) => (p \notin readers /\ writer # p))
  /\ [](writer # Nobody => InWrite(writer))
  /\ [][\A p \in Procs :
          (HasResult(p) /\ pc'[p] # pc[p]) =>
            /\ pc'[p] = "ret"
            /\ writer' # p
            /\ p \notin readers'
            /\ writer = p => writer' = Nobody
            /\ res[p].err = ErrNotFound => writer' = Nobody]_vars

\* A call has returned on a store that never held a record, where GetByID,
\* Update and Delete can only fail, and the next writer is inside.
C29_Witness ==
  \E p, q \in Procs :
    /\ pc[p] = "ret"
    /\ assignLog = << >>
    /\ pc[q] = "L77"
    /\ writer = q
    /\ readers = {}

\* ----------------------------------------------------------------- C30
\* C30: a read in progress does not block another read: while a goroutine
\* is inside GetAll or GetByID and no writer holds or waits for the lock, a
\* goroutine arriving at RLock can take the read lock, in GetAll and in
\* GetByID alike.
C30_ReadsOverlap ==
  \A p, q \in Procs :
    (pc[p] = "RLock" /\ InRead(q) /\ writer = Nobody /\ WaitingWriters = {}) =>
      /\ ENABLED GetAll_L25(p)
      /\ ENABLED GetByID_L37(p)

\* A GetAll and a GetByID are inside their critical sections at the same
\* time, each holding the read lock.
C30_Witness ==
  \E p, q \in Procs :
    /\ pc[p] \in {"L28", "L26"}
    /\ pc[q] \in {"L40", "L38"}
    /\ {p, q} \subseteq readers

\* ===================================================================
\* Properties of the handlers
\* ===================================================================
\* The text is an optional sign followed by one or more decimal digits.
DecimalInt(s) ==
  LET body == IF s # << >> /\ s[1] \in {"+", "-"} THEN Tail(s) ELSE s
  IN  body # << >> /\ \A k \in DOMAIN body : body[k] \in Range(DigitChars)

\* The text of a decimal integer denotes a value an int holds.
FitsInt(s) ==
  LET body == IF s[1] \in {"+", "-"} THEN Tail(s) ELSE s
  IN  DigitsLeq(StripZeros(body), IF s[1] = "-" THEN MinIntDigits ELSE MaxIntDigits)

\* The path is an integer: a decimal integer that an int holds.
IsInteger(s) == DecimalInt(s) /\ FitsInt(s)

\* The handler of p's request has written 400 and not called the store.
Rejected(p) == pc[p] \in BadRequestLines

\* A step in which the handler of p's request rejects it or returns after
\* rejecting it.
RejectStep(p) == pc'[p] # pc[p] /\ (Rejected(p) \/ Rejected(p)')

\* Such a step is from idle to the line that writes 400, or from there back
\* to idle, and leaves the store, the lock and every call as they are.
StoreNotCalled(p) ==
  /\ (Rejected(p)' /\ pc[p] = "idle") \/ (Rejected(p) /\ pc'[p] = "idle")
  /\ UNCHANGED << shared, mutex, op, id, given, user, res, returning, history >>

\* The paths parse exactly when they are integers, to the value they denote.
PathsParse ==
  /\ \A s \in Paths : Atoi(s).err = ErrNone <=> IsInteger(s)
  /\ \A i \in ArgIDs : Atoi(Itoa(i)) = [err |-> ErrNone, n |-> i]
  /\ \A s \in BadPaths : \A i \in ArgIDs : s # Itoa(i)

\* ----------------------------------------------------------------- C23
\* C23: GET /users/:id.  A path that is not an integer is answered 400
\* "Invalid user ID" and the store is not called; a path that is an integer
\* (0 and negative ones included) reaches GetByID as its value, and the
\* answer is 404 "User not found" when no record is stored under it and 200
\* with the stored record otherwise.  400 is written at no other place and
\* is never the answer to a store result.
C23_GetUser ==
  /\ [](PathsParse)
  /\ [](\A p \in Procs :
         /\ pc[p] = "H172" =>
               Response(p) = [status |-> StatusBadRequest, error |-> ErrInvalidUserID,
                              users |-> << >>]
         /\ pc[p] = "L38" =>
               /\ id[p] \in ArgIDs
               /\ ~Has(users, id[p]) =>
                     Response(p) = [status |-> StatusNotFound, error |-> ErrUserNotFound,
                                    users |-> << >>]
               /\ Has(users, id[p]) =>
                     Response(p) = [status |-> StatusOK, error |-> "",
                                    users |-> << users[id[p]] >>]
               /\ id[p] <= 0 => Response(p).status = StatusNotFound
         /\ Response(p).status = StatusBadRequest <=> Rejected(p))
  /\ [][\A p \in Procs : RejectStep(p) => StoreNotCalled(p)]_vars

\* One request with a path that is no integer is answered 400 while another,
\* for the id -1 or 0, is answered 404 by a store that holds a record.
C23_Witness ==
  \E p, q \in Procs :
    /\ pc[p] = "H172"
    /\ pc[q] = "L38"
    /\ id[q] <= 0
    /\ Response(q).status = StatusNotFound
    /\ users # << >>

\* ----------------------------------------------------------------- C24
\* The body decodes as a user: it is JSON, an object, and no member that a
\* User has is of another type than the User's field.
DecodesAsUser(b) ==
  /\ b.wellFormed
  /\ b.top = "object"
  /\ b.id.t # "string"
  /\ b.name.t # "number"
  /\ b.email.t # "number"

\* The bodies bind exactly when they decode as a user, to the user with the
\* members they carry.
BodiesBind ==
  /\ \A b \in Bodies : ShouldBindJSON(b).err = ErrNone <=> DecodesAsUser(b)
  /\ \A b \in GoodBodies :
        /\ ShouldBindJSON(b).user.ID = b.id.n
        /\ ShouldBindJSON(b).user.Name = b.name.s
        /\ ShouldBindJSON(b).user.Email = b.email.s

\* C24: POST /users.  A body that does not decode as a user is answered 400
\* and the store is not called: the map and the counter stay as they are.
\* A body that decodes reaches Create as the user it binds to, and the
\* answer is 201 with the record Create returns: the stored record, whose id
\* is the one the store assigned.
C24_CreateUser ==
  /\ [](BodiesBind)
  /\ [](\A p \in Procs :
         /\ pc[p] = "H197" =>
               Response(p) = [status |-> StatusBadRequest, error |-> ErrBind, users |-> << >>]
         /\ pc[p] = "L50" =>
               /\ given[p] \in Candidates
               /\ Response(p).status = StatusCreated
               /\ Response(p).error = ""
               /\ Response(p).users = << users[nextID - 1] >>
               /\ Response(p).users[1] = [ID |-> assignLog[Len(assignLog)],
                                           Name |-> given[p].Name, Email |-> given[p].Email]
         /\ Response(p).status = StatusCreated <=> pc[p] = "L50")
  /\ [][\A p \in Procs :
          (RejectStep(p) /\ "H197" \in {pc[p], pc'[p]}) =>
            (StoreNotCalled(p) /\ users' = users /\ nextID' = nextID)]_vars

\* A POST whose body carries the id 999 is answered 201 with the id the
\* store assigned, while a POST whose body does not decode is answered 400.
C24_Witness ==
  \E p, q \in Procs :
    /\ pc[p] = "L50"
    /\ given[p].ID = CallerID
    /\ Response(p).status = StatusCreated
    /\ Response(p).users[1].ID = nextID - 1
    /\ pc[q] = "H197"

\* ----------------------------------------------------------------- C25
\* UpdateUser checks the path first and the body next, and calls the store
\* with what they parse and bind to.
PathCheckedBeforeBody ==
  \A s \in Paths, b \in Bodies :
    /\ ~IsInteger(s) => UpdateUserChecks(s, b) = "H225"
    /\ (IsInteger(s) /\ ~DecodesAsUser(b)) => UpdateUserChecks(s, b) = "H231"
    /\ (IsInteger(s) /\ DecodesAsUser(b)) =>
          /\ UpdateUserChecks(s, b) = "L235"
          /\ Atoi(s).n \in ArgIDs
          /\ ShouldBindJSON(b).user \in Candidates

\* C25: PUT /users/:id.  A path that is not an integer is answered 400
\* "Invalid user ID" whatever the body is; with an integer path, a body that
\* does not decode is answered 400 whether or not the id is stored; both
\* without calling the store.  Otherwise Update is called with the parsed id
\* and the bound user: a missing id is answered 404 "User not found" and the
\* store is left as it is, a stored id 200 with the updated record, whose id
\* is the path's id also when the body carries another.
C25_UpdateUser ==
  /\ [](PathCheckedBeforeBody)
  /\ [](\A p \in Procs :
         /\ pc[p] = "H225" =>
               Response(p) = [status |-> StatusBadRequest, error |-> ErrInvalidUserID,
                              users |-> << >>]
         /\ pc[p] = "H231" =>
               Response(p) = [status |-> StatusBadRequest, error |-> ErrBind, users |-> << >>]
         /\ pc[p] = "L61" =>
               /\ id[p] \in ArgIDs /\ given[p] \in Candidates
               /\ ~Has(users, id[p]) =>
                     Response(p) = [status |-> StatusNotFound, error |-> ErrUserNotFound,
                                    users |-> << >>]
               /\ Has(users, id[p]) =>
                     /\ Response(p).status = StatusOK
                     /\ Response(p).users =
                          << [ID |-> id[p], Name |-> given[p].Name, Email |-> given[p].Email] >>
                     /\ Response(p).users = << users[id[p]] >>)
  /\ [][\A p \in Procs :
          /\ (RejectStep(p) /\ {pc[p], pc'[p]} \cap {"H225", "H231"} # {}) => StoreNotCalled(p)
          /\ (pc[p] = "L63" /\ pc'[p] = "L61") => UNCHANGED shared
          /\ (pc[p] = "L61" /\ pc'[p] # "L61" /\ res[p].err # ErrNone) => UNCHANGED shared]_vars

\* A PUT whose body carries another id than its path is answered 200 with
\* the path's id, while a PUT whose body does not decode is answered 400.
C25_Witness ==
  \E p, q \in Procs :
    /\ pc[p] = "L61"
    /\ Response(p).status = StatusOK
    /\ given[p].ID # id[p]
    /\ Response(p).users[1].ID = id[p]
    /\ pc[q] = "H231"

\* ----------------------------------------------------------------- C26
\* C26: DELETE /users/:id.  A path that is not an integer is answered 400
\* "Invalid user ID" and the store is not called.  Otherwise Delete is
\* called with the parsed id: when it removes the record the answer is 204
\* with an empty body, and when the id is not stored, as it is for an id
\* deleted before, the answer is 404 "User not found".
C26_DeleteUser ==
  /\ [](PathsParse)
  /\ [](\A p \in Procs :
         /\ pc[p] = "H257" =>
               Response(p) = [status |-> StatusBadRequest, error |-> ErrInvalidUserID,
                              users |-> << >>]
         /\ pc[p] = "L75" =>
               /\ id[p] \in ArgIDs
               /\ res[p].err = ErrNone =>
                     Response(p) = [status |-> StatusNoContent, error |-> "", users |-> << >>]
               /\ res[p].err # ErrNone =>
                     Response(p) = [status |-> StatusNotFound, error |-> ErrUserNotFound,
                                    users |-> << >>]
               /\ ~Has(users, id[p])
         /\ Response(p).status = StatusNoContent => (pc[p] = "L75" /\ id[p] \in deleted))
  /\ [][\A p \in Procs :
          /\ (RejectStep(p) /\ "H257" \in {pc[p], pc'[p]}) => StoreNotCalled(p)
          /\ (pc[p] = "L77" /\ pc'[p] = "L75") =>
                /\ Response(p)'.status = StatusNotFound <=> ~Has(users, id[p])
                /\ id[p] \in deleted => Response(p)'.status = StatusNotFound
          /\ (pc[p] = "L81" /\ pc'[p] = "L75") =>
                /\ Response(p)'.status = StatusNoContent
                /\ Has(users, id[p]) /\ ~Has(users', id[p])]_vars

\* A second DELETE of an id is answered 404 while a DELETE with a path that
\* is no integer is answered 400.
C26_Witness ==
  \E p, q \in Procs :
    /\ pc[p] = "L75"
    /\ id[p] \in deleted
    /\ Response(p).status = StatusNotFound
    /\ pc[q] = "H257"

\* ----------------------------------------------------------------- C27
\* The record with id i is in the list a response carries.
Lists(r, i) == \E k \in DOMAIN r.users : r.users[k].ID = i

\* C27: for an id i that a POST has returned with 201 (i is not 0): as long
\* as no DELETE has removed i, a GET /users/i is answered 200 with the
\* record as the latest PUT left it, GET /users lists it, and PUT /users/i
\* is answered 200; once a DELETE of i has been answered 204 or is about to
\* be, GET /users/i and PUT /users/i are answered 404, GET /users does not
\* list i, and this never changes again.
C27_Lifecycle ==
  /\ [](\A i \in ReturnedIDs : \A p \in Procs :
         /\ i # 0
         /\ (pc[p] = "L38" /\ id[p] = i) =>
               IF i \in deleted
                 THEN Response(p).status = StatusNotFound
                 ELSE Response(p) = [status |-> StatusOK, error |-> "", users |-> << users[i] >>]
         /\ pc[p] = "L26" =>
               /\ Response(p).status = StatusOK
               /\ Lists(Response(p), i) <=> i \notin deleted
         /\ (pc[p] = "L61" /\ id[p] = i) =>
               IF i \in deleted
                 THEN Response(p).status = StatusNotFound
                 ELSE Response(p) = [status |-> StatusOK, error |-> "", users |-> << users[i] >>]
         /\ (pc[p] = "L75" /\ id[p] = i) =>
               /\ i \in deleted
               /\ Response(p).status \in {StatusNoContent, StatusNotFound})
  /\ [][/\ deleted \subseteq deleted'
        /\ ReturnedIDs \subseteq BagToSet(returned')
        /\ \A p \in Procs :
             (pc[p] = "L81" /\ pc'[p] = "L75") =>
               (Response(p)'.status = StatusNoContent /\ id[p] \in deleted')]_vars

\* The id a POST returned has been deleted and every request has returned;
\* a later GET of it is answered 404 while another record is still stored.
C27_Witness ==
  \E p \in Procs :
    /\ pc[p] = "L38"
    /\ id[p] \in ReturnedIDs \cap deleted
    /\ Response(p).status = StatusNotFound
    /\ \A q \in Procs \ {p} : pc[q] = "idle"
    /\ users # << >>

\* ----------------------------------------------------------------- C33
\* The goroutine is in GetAll or GetByID, from taking the read lock to its
\* return.
Reading(p) == op[p] \in {"GetAll", "GetByID"}

\* The two results list the same set of records.
SameRecords(r, q) ==
  /\ r.err = q.err
  /\ Len(r.users) = Len(q.users)
  /\ Range(r.users) = Range(q.users)

\* C33: GetByID, found or not, and GetAll are pure.  No step of a goroutine
\* that is in a read, from taking the read lock to releasing it, changes
\* the map or the counter; as long as a read has not released its lock its
\* result is what the map holds, and two reads of the same kind and id that
\* hold the read lock together, so that no write lies between them, have
\* the same result: the same record or the same error, the same set of
\* records.
C33_ReadsArePure ==
  /\ [](\A p, q \in Procs :
         /\ pc[p] = "L38" => res[p] = Lookup(users, id[p])
         /\ pc[p] = "L26" => SameRecords(res[p], [err |-> ErrNone, users |-> CHOOSE s \in Slices(users) : TRUE])
         /\ (pc[p] = "L38" /\ pc[q] = "L38" /\ id[p] = id[q]) => res[p] = res[q]
         /\ (pc[p] = "L26" /\ pc[q] = "L26") => SameRecords(res[p], res[q]))
  /\ [][\A p \in Procs :
          ((Reading(p) \/ Reading(p)') /\ pc'[p] # pc[p]) => UNCHANGED << users, nextID >>]_vars

\* Two goroutines hold the read lock together after reading the same stored
\* id, in a store that has seen a Delete.
C33_Witness ==
  \E p, q \in Procs :
    /\ p # q
    /\ pc[p] = "L38" /\ pc[q] = "L38"
    /\ id[p] = id[q]
    /\ res[p].err = ErrNone
    /\ users # << >>
    /\ deleted # {}

\* ----------------------------------------------------------------- C34
\* The statuses the handlers answer with over this store.
AnsweredStatuses ==
  {StatusOK, StatusCreated, StatusNoContent, StatusBadRequest, StatusNotFound}

\* C34: over MemoryUserStore no response is 500.  GetAll and Create return
\* no error, so GET /users is answered 200 with the records the store holds,
\* an empty array when it holds none, and a POST /users whose body has bound
\* is answered 201; every response is one of 200, 201, 204, 400 and 404.
C34_NeverInternalError ==
  \A p \in Procs :
    /\ Response(p) # NoResponse => Response(p).status \in AnsweredStatuses
    /\ Response(p).status # StatusInternalServerError
    /\ pc[p] = "L26" =>
          /\ res[p].err = ErrNone
          /\ Response(p).status = StatusOK
          /\ Response(p).error = ""
          /\ Len(Response(p).users) = Cardinality(DOMAIN users)
          /\ Range(Response(p).users) = Range(users)
    /\ pc[p] = "L50" =>
          /\ res[p].err = ErrNone
          /\ given[p] \in Candidates
          /\ Response(p).status = StatusCreated

\* GET /users is answered 200 with an empty array by a store that held a
\* record and lost it to a DELETE, while another request is answered 400.
C34_Witness ==
  \E p, q \in Procs :
    /\ pc[p] = "L26"
    /\ Response(p) = [status |-> StatusOK, error |-> "", users |-> << >>]
    /\ deleted # {}
    /\ pc[q] \in BadRequestLines

\* ----------------------------------------------------------------- C36
\* Load has returned.
Loaded == config.pc = "done"

\* The file Load has read from: the fields it sets, none when Load read no
\* file.
FileKeys == IF config.configFile = NoFile THEN NoKeys ELSE config.fs[config.configFile].keys

\* The file is there for Load to use: it can be read and it parses.
Usable(file) == file.readable /\ file.parses

\* C36: for Environment, Server.Address, Database.Type, Database.Host and
\* Logging.Level, Load returns the value of GO_ENV, SERVER_ADDRESS, DB_TYPE,
\* DB_HOST or LOG_LEVEL when that variable is not empty, otherwise the value
\* the config file sets when it sets one, otherwise the default; a variable
\* that is unset or empty overrides nothing.  When the config file cannot be
\* read or does not parse, Load returns an error and no configuration, and
\* it returns an error in no other case.
C36_Precedence ==
  Loaded =>
    IF config.configFile # NoFile /\ ~Usable(config.fs[config.configFile])
      THEN config.ret.err # ErrNone /\ config.ret.cfg = NilConfig
      ELSE /\ config.ret.err = ErrNone
           /\ \A n \in EnvNames :
                config.ret.cfg[EnvField[n]] =
                  IF config.environ[n] # "" THEN config.environ[n]
                  ELSE IF EnvField[n] \in DOMAIN FileKeys THEN FileKeys[EnvField[n]]
                  ELSE Defaults[EnvField[n]]

\* Load has returned a configuration in which one field comes from the
\* environment, one from the file, which sets it against a variable that is
\* empty, and one from the defaults, set by neither.
C36_Witness ==
  /\ Loaded
  /\ config.ret.err = ErrNone
  /\ config.configFile # NoFile
  /\ \E n, m, k \in EnvNames :
       /\ config.environ[n] # "" /\ EnvField[n] \in DOMAIN FileKeys
       /\ config.ret.cfg[EnvField[n]] = config.environ[n]
       /\ config.environ[m] = "" /\ EnvField[m] \in DOMAIN FileKeys
       /\ config.ret.cfg[EnvField[m]] = FileKeys[EnvField[m]]
       /\ FileKeys[EnvField[m]] # Defaults[EnvField[m]]
       /\ config.environ[k] = "" /\ EnvField[k] \notin DOMAIN FileKeys
       /\ config.ret.cfg[EnvField[k]] = Defaults[EnvField[k]]

\* ----------------------------------------------------------------- C37
\* getConfigFile has returned.
Selected == config.pc \in {"L62", "L68", "L70", "done"}

\* The file of the environment: GO_ENV, "development" when it is unset.
EnvFileOf(environ) ==
  EnvConfigFile(IF environ["GO_ENV"] = "" THEN "development" ELSE environ["GO_ENV"])

\* Load has returned the defaults with the overrides of the environment and
\* nothing else.
DefaultsAndEnvOnly ==
  /\ config.ret.err = ErrNone
  /\ \A n \in EnvNames :
       config.ret.cfg[EnvField[n]] =
         IF config.environ[n] # "" THEN config.environ[n] ELSE Defaults[EnvField[n]]
  /\ \A f \in ConfigFields \ {EnvField[n] : n \in EnvNames} : config.ret.cfg[f] = Defaults[f]

\* C37 as claimed: getConfigFile returns configs/config.<GO_ENV>.yaml when
\* that file exists (GO_ENV unset counts as development), otherwise
\* configs/config.yaml when that exists, otherwise no file, and then Load
\* succeeds with the defaults and the overrides of the environment only.
C37_SelectsExistingFile ==
  LET envFile == EnvFileOf(config.environ)
      chosen  == IF config.fs[envFile].exists THEN envFile
                 ELSE IF config.fs[DefaultConfigFile].exists THEN DefaultConfigFile
                 ELSE NoFile
  IN  /\ Selected => config.configFile = chosen
      /\ (Loaded /\ chosen = NoFile) => DefaultsAndEnvOnly

\* C37, amended: getConfigFile returns configs/config.<GO_ENV>.yaml unless
\* os.Stat reports that it does not exist (GO_ENV unset counts as
\* development), otherwise configs/config.yaml unless os.Stat reports that
\* that does not exist, otherwise no file, and then Load succeeds with the
\* defaults and the overrides of the environment only.  A file whose Stat
\* fails for another reason is selected, and Load returns an error when it
\* cannot read it; where Stat answers for both files, the file selected is
\* the first of the two that exists.
C37_SelectsUnlessNotExist ==
  LET envFile == EnvFileOf(config.environ)
      chosen  == IF ~StatIsNotExist(config.fs, envFile) THEN envFile
                 ELSE IF ~StatIsNotExist(config.fs, DefaultConfigFile) THEN DefaultConfigFile
                 ELSE NoFile
      answers == \A f \in {envFile, DefaultConfigFile} : config.fs[f].stat # "error"
  IN  /\ Selected => config.configFile = chosen
      /\ (Selected /\ answers) =>
            \/ config.configFile = NoFile
                 /\ ~config.fs[envFile].exists /\ ~config.fs[DefaultConfigFile].exists
            \/ config.configFile # NoFile /\ config.fs[config.configFile].exists
                 /\ (config.configFile = DefaultConfigFile => ~config.fs[envFile].exists)
      /\ (Loaded /\ chosen = NoFile) => DefaultsAndEnvOnly
      /\ (Loaded /\ chosen # NoFile /\ ~config.fs[chosen].readable) => config.ret.err # ErrNone

\* GO_ENV is production, configs/config.production.yaml does not exist and
\* Stat says so, Stat of configs/config.yaml fails for another reason and
\* that file does not exist either: it is selected and Load has returned an
\* error.
C37_Witness ==
  /\ Loaded
  /\ config.environ["GO_ENV"] = "production"
  /\ StatIsNotExist(config.fs, EnvConfigFile("production"))
  /\ config.fs[DefaultConfigFile].stat = "error"
  /\ ~config.fs[DefaultConfigFile].exists
  /\ config.configFile = DefaultConfigFile
  /\ config.ret.err # ErrNone

\* ----------------------------------------------------------------- C35
\* The store as New leaves it: John Doe under 1 and Jane Smith under 2.
SeededUsers ==
  [i \in 1..Len(SeedUsers) |-> [SeedUsers[i] EXCEPT !.ID = i]]

SeedIDs == DOMAIN SeededUsers

\* C35: start-up seeds the store with exactly two records before any request
\* is served.  While New runs no request is in the store; when its last
\* Create returns the store holds John Doe under id 1 and Jane Smith under
\* id 2, nothing else, and the counter is 3.  Hence ids are assigned in the
\* order 1, 2, 3, ..., the first Create of a request assigns 3, and after a
\* seeded record is deleted its id is never assigned again and never stored
\* again.
C35_Seeded ==
  /\ [](/\ StartingUp => \A p \in Procs \ {Main} : pc[p] = "idle"
        /\ StartingUp => (deleted = {} /\ Len(assignLog) <= Len(SeedUsers))
        /\ ~StartingUp => nextID > Len(SeedUsers)
        /\ \A k \in DOMAIN assignLog : assignLog[k] = k
        /\ \A i \in SeedIDs \cap deleted : ~Has(users, i))
  /\ [][/\ (StartingUp /\ ~StartingUp') =>
             /\ users' = SeededUsers
             /\ nextID' = Len(SeedUsers) + 1
             /\ BagToSet(returned') = SeedIDs
             /\ \A p \in Procs : pc'[p] = "idle"
        /\ \A p \in Procs :
             (~StartingUp /\ pc[p] = "L52" /\ pc'[p] = "L53") =>
               /\ user'[p].ID \notin SeedIDs
               /\ user'[p].ID = Len(SeedUsers) + 1 <=> Len(assignLog) = Len(SeedUsers)
        /\ deleted \subseteq deleted'
       ]_vars

\* A request has deleted John Doe, and the first record a request created is
\* stored under id 3.
C35_Witness ==
  /\ 1 \in deleted
  /\ Has(users, 3)
  /\ Has(users, 2) /\ users[2].Name = "Jane Smith"
  /\ nextID = 4

\* ----------------------------------------------------------------- C31
\* The records and the counter of store k of the test.
Contents(t, k) == [users |-> MapOf(t, k), nextID |-> t.stores[k].nextID]

\* C31: the stores NewMemoryUserStore returns are independent and start
\* clean.  A store that has just been made has no records and counter 1; the
\* first Create of every store returns id 1; and a call on one store, or the
\* making of another, leaves the records and the counter of every other
\* store as they are.
C31_IndependentInstances ==
  /\ [](\A k \in DOMAIN test.stores :
          /\ (test.last.method = "New" /\ test.last.store = k) =>
                Contents(test, k) = [users |-> << >>, nextID |-> InitialNextID]
          /\ (test.last.method = "Create" /\ test.last.store = k
                /\ Cardinality(DOMAIN test.written[k]) = 1
                /\ test.stores[k].nextID = InitialNextID + 1) =>
                test.last.vals[1].ID = InitialNextID
          /\ test.stores[k].nextID = InitialNextID => MapOf(test, k) = << >>)
  /\ [][\A k \in DOMAIN test.stores :
          test'.last.store # k => Contents(test', k) = Contents(test, k)]_vars

\* Two stores have both returned id 1 for their first Create and hold
\* different records under it; one of them has gone on to a second record.
C31_Witness ==
  /\ Len(test.stores) = 2
  /\ Has(MapOf(test, 1), 1) /\ Has(MapOf(test, 2), 1)
  /\ MapOf(test, 1)[1] # MapOf(test, 2)[1]
  /\ test.stores[1].nextID # test.stores[2].nextID

\* ----------------------------------------------------------------- C32
\* C32: what the store returns is a copy.  When the test changes the fields
\* of a user that Create, GetByID or Update returned, or of an element of
\* the slice GetAll returned, no map and no counter changes; every store
\* holds, under every id, the user last written to it by Create or Update,
\* and that is what GetByID and GetAll return.
C32_ResultsAreCopies ==
  /\ [](\A k \in DOMAIN test.stores : MapOf(test, k) = test.written[k])
  /\ [](LET k == test.last.store
        IN  /\ (test.last.method = "GetByID" /\ test.last.err = ErrNone) =>
                  /\ Has(test.written[k], test.last.vals[1].ID)
                  /\ test.last.vals[1] = test.written[k][test.last.vals[1].ID]
            /\ test.last.method = "GetAll" =>
                  /\ Range(test.last.vals) = Range(test.written[k])
                  /\ Len(test.last.vals) = Cardinality(DOMAIN test.written[k]))
  /\ [][(test'.last.method = "mutated" /\ test.last.method # "mutated") =>
          /\ test'.maps = test.maps
          /\ test'.stores = test.stores
          /\ test'.written = test.written]_vars

\* The test has changed a user that a call returned, the store still holds
\* a user under that id, and it is not what the test now holds.
C32_Witness ==
  /\ test.last.method = "mutated"
  /\ \E j \in DOMAIN test.last.vals :
       /\ test.last.vals[j].Name = "scribbled"
       /\ Has(MapOf(test, test.last.store), test.last.vals[j].ID - 100)
       /\ MapOf(test, test.last.store)[test.last.vals[j].ID - 100].Name # "scribbled"
  /\ Len(test.last.vals) > 1

====
